---- MODULE Spec2Model ----
(***************************************************************************)
(* Session and client lifecycle management of telegrand                     *)
(* (src/src/session_manager.rs, with the parts of src/src/login.rs and      *)
(* src/src/utils.rs it calls).                                              *)
(*                                                                          *)
(* The event loop runs one callback at a time, so every action below is one *)
(* callback run to completion: a TDLib update handed to handle_update, the  *)
(* completion closure of a do_async call, or a user action on the Login     *)
(* widget.  The TDLib runtime is the environment: it owns the authorization *)
(* state of each client, answers requests and creates database directories. *)
(***************************************************************************)
EXTENDS Integers, Sequences, FiniteSets, TLC

\* ------------------------------------------------------------------ bounds

\* Client ids tdgrand::create_client() may hand out: 1..MaxClients, and one
\* more where the model starts with a session logged in.
MaxClients == 2
\* Number of session directories that may exist in the data directory at start.
MaxOld == 2
\* Longest persisted "recently-used-sessions" value read at start.
MaxPersisted == 2
\* Milliseconds the clock may advance to after the start.
MaxTime == 1
\* Most sessions logged in at once where the model starts with all logged in.
MaxLoggedIn == 3
\* Most set_online calls spawned on the runtime and not yet run, where the
\* model follows them.
MaxPending == 6

\* --------------------------------------------------------------- universes

\* A directory base name "db<ms>" is <<ms, 0>>, "db<ms>_<count>" is <<ms, count>>.
\* The directories of earlier runs carry the timestamps 1..MaxOld, the name
\* <<0, 0>> is a name no directory carries, the clock of this run starts after them.
OldNames == {<<t, 0>> : t \in 1..MaxOld}

StaleName == <<0, 0>>

StartTime == MaxOld + 1

Times == StartTime..(StartTime + MaxTime)

ClientIds == 1..MaxClients

NoSession == [client_id |-> 0]

NoRequest == "none"

\* The runtime where the model does not follow the calls spawned on it.
NotFollowed == [followed |-> FALSE, tasks |-> <<>>]

\* The elements of a finite set of integers in ascending order.
RECURSIVE Ascending(_)
Ascending(S) ==
    IF S = {} THEN <<>>
    ELSE LET least == CHOOSE x \in S : \A y \in S : x <= y
         IN <<least>> \o Ascending(S \ {least})

\* imp::Login after constructed().  frozen stands for the actions being disabled
\* (disable_actions, freeze): they are until a page is shown.
NoLogin == [client_id |-> 0, session |-> NoSession, page |-> "phone-number-page",
            frozen |-> TRUE]

RECURSIVE SeqsUpTo(_, _)
SeqsUpTo(S, n) ==
    IF n = 0 THEN {<<>>}
    ELSE LET shorter == SeqsUpTo(S, n - 1)
         IN shorter \cup {Append(q, x) : q \in {r \in shorter : Len(r) = n - 1}, x \in S}

Range(f) == {f[i] : i \in DOMAIN f}

\* All orders in which the elements of the finite set S can be listed.
RECURSIVE Orders(_)
Orders(S) ==
    IF S = {} THEN {<<>>}
    ELSE UNION {{<<x>> \o q : q \in Orders(S \ {x})} : x \in S}

\* ------------------------------------------------------------ pure helpers

\* Vec::iter().position(): index of the first element equal to x, 0 for None.
Position(vec, x) ==
    IF \E i \in 1..Len(vec) : vec[i] = x
    THEN CHOOSE i \in 1..Len(vec) : vec[i] = x /\ \A j \in 1..(i - 1) : vec[j] # x
    ELSE 0

\* Vec::remove(pos).
VecRemove(vec, pos) == SubSeq(vec, 1, pos - 1) \o SubSeq(vec, pos + 1, Len(vec))

\* remove_from_vec: removes the first element equal to to_remove, if any.
remove_from_vec(vec, to_remove) ==
    LET pos == Position(vec, to_remove)
    IN IF pos = 0 THEN vec ELSE VecRemove(vec, pos)

\* Vec::retain(): the elements satisfying Keep, in their order.
RECURSIVE Retain(_, _)
Retain(vec, keep) ==
    IF vec = <<>> THEN <<>>
    ELSE (IF Head(vec) \in keep THEN <<Head(vec)>> ELSE <<>>) \o Retain(Tail(vec), keep)

\* An entry of the data directory: what entry.metadata() says, and whether the
\* files td.binlog and td_test.binlog exist in it.
Entry(meta, prod, test) == [meta |-> meta, td_binlog |-> prod, td_test_binlog |-> test]

SessionDir(use_test_dc) == Entry("dir", ~use_test_dc, use_test_dc)

DatabaseInfo(name, use_test_dc) ==
    [directory_base_name |-> name, use_test_dc |-> use_test_dc]

\* A plausible slip of the analyzer: td_test.binlog is looked for first.
database_info_of_test_first(name, entry) ==
    IF entry.meta # "dir" THEN <<>>
    ELSE IF entry.td_test_binlog THEN <<DatabaseInfo(name, TRUE)>>
    ELSE IF entry.td_binlog THEN <<DatabaseInfo(name, FALSE)>>
    ELSE <<>>

\* The two try_filter_map stages and the map_ok of analyze_data_dir for one entry:
\* <<>> when the entry is dropped, else the DatabaseInfo.
database_info_of(name, entry) ==
    IF entry.meta # "dir" THEN <<>>
    ELSE IF entry.td_binlog THEN <<DatabaseInfo(name, FALSE)>>
    ELSE IF entry.td_test_binlog THEN <<DatabaseInfo(name, TRUE)>>
    ELSE <<>>

RECURSIVE database_infos_of(_, _)
database_infos_of(order, entries) ==
    IF order = <<>> THEN <<>>
    ELSE database_info_of(Head(order), entries[Head(order)])
            \o database_infos_of(Tail(order), entries)

\* A plausible slip of the analyzer: the persisted list is returned unfiltered.
analyze_data_dir_unfiltered(dir_state, entries, order, strv) ==
    IF dir_state \in {"uncreatable", "unreadable"} THEN [tag |-> "Err"]
    ELSE IF dir_state = "missing" THEN [tag |-> "Empty"]
    ELSE LET database_infos == database_infos_of(order, entries)
         IN IF database_infos = <<>> THEN [tag |-> "Empty"]
            ELSE [tag |-> "HasSessions",
                  database_infos |-> database_infos,
                  recently_used_sessions |-> strv]

\* analyze_data_dir.  dir_state is the state of the data directory itself
\* ("missing" and created by create_dir_all, "uncreatable" when it is missing
\* and create_dir_all fails, "ok", or "unreadable" when it exists and read_dir
\* or the listing of its entries fails),
\* entries its content, order the order in which read_dir lists it, strv the
\* persisted "recently-used-sessions" value.
analyze_data_dir(dir_state, entries, order, strv) ==
    IF dir_state \in {"uncreatable", "unreadable"} THEN [tag |-> "Err"]
    ELSE IF dir_state = "missing" THEN [tag |-> "Empty"]
    ELSE LET database_infos == database_infos_of(order, entries)
             names == {database_infos[i].directory_base_name : i \in DOMAIN database_infos}
         IN IF database_infos = <<>> THEN [tag |-> "Empty"]
            ELSE [tag |-> "HasSessions",
                  database_infos |-> database_infos,
                  recently_used_sessions |-> Retain(strv, names)]

\* The state of the data directory once analyze_data_dir has run: a missing
\* directory has been created by create_dir_all.
data_dir_after(dir_state) == IF dir_state = "missing" THEN "ok" ELSE dir_state

\* generate_database_dir_base_name at clock value now, with the data directory
\* holding entries: "db<now>", or the first "db<now>_<count>", count = 2, 3, ...,
\* that does not exist.
generate_database_dir_base_name(now, entries) ==
    IF <<now, 0>> \in DOMAIN entries
    THEN LET count == CHOOSE c \in 2..(Cardinality(DOMAIN entries) + 2) :
                         /\ <<now, c>> \notin DOMAIN entries
                         /\ \A d \in 2..(c - 1) : <<now, d>> \in DOMAIN entries
         IN <<now, count>>
    ELSE <<now, 0>>

\* ------------------------------------------------------------------- state

VARIABLES
    pc,                         \* "boot", "run", "closing" within close_clients,
                                \* "closed" after it, or "aborted" after a panic
    test_dc,                    \* APPLICATION_OPTS.test_dc
    data_dir,                   \* state of the data directory itself
    disk,                       \* the entries of the data directory, by name
    settings,                   \* gsettings value "recently-used-sessions"
    recently_used_sessions,     \* imp::SessionManager::recently_used_sessions
    initial_sessions_to_handle, \* imp::SessionManager::initial_sessions_to_handle
    clients,                    \* imp::SessionManager::clients (the registry)
    main_stack,                 \* visible child of main_stack: "login" or "sessions"
    pages,                      \* children of the sessions stack, in order
    visible_child,              \* visible child of the sessions stack, or NoSession
    login,                      \* imp::Login: client_id, session, page, frozen
    next_client_id,             \* the id the next tdgrand::create_client() returns
    clock,                      \* SystemTime::now() in milliseconds, never decreasing
    tdlib,                      \* per client: authorization state, request in flight
    get_me,                     \* per client: the pending add_logged_in_session call
    me,                         \* per session: own phone number, once set_me_from_id ran
    removals,                   \* directory names handed to fs::remove_dir_all, in order
    closed,                     \* client ids whose Closed update has been processed
    last,                       \* the callback that ran last
    delivered,                  \* the session whose handle_update that callback called
    forwarded,                  \* the state that callback gave to Login, "" for none
    spawned,                    \* the TDLib calls that callback spawned, in order
    runtime,                    \* the set_online calls spawned and not yet run
    online,                     \* per client: TDLib's option "online"
    blocked_on,                 \* the calls close_clients is blocked on
    last_client_id              \* the last id tdgrand::create_client() hands out

vars == <<pc, test_dc, data_dir, disk, settings, recently_used_sessions,
          initial_sessions_to_handle, clients, main_stack, pages, visible_child,
          login, next_client_id, clock, tdlib, get_me, me, removals, closed, last,
          delivered, forwarded, spawned, runtime, online, blocked_on,
          last_client_id>>

\* Session::new(client_id, database_info).
Session(client_id, database_info) ==
    [client_id |-> client_id,
     directory_base_name |-> database_info.directory_base_name,
     use_test_dc |-> database_info.use_test_dc]

\* ClientState.
Auth(maybe_authorized) == [tag |-> "Auth", maybe_authorized |-> maybe_authorized]

LoggedIn == [tag |-> "LoggedIn", maybe_authorized |-> FALSE]

LoggingOut == [tag |-> "LoggingOut", maybe_authorized |-> FALSE]

\* struct Client.
Client(session, state) == [session |-> session, state |-> state]

\* Client::database_dir_base_name.
database_dir_base_name(client) == client.session.directory_base_name

\* The mutable state a callback works on, as one record.
Now ==
    [pc |-> pc, data_dir |-> data_dir, disk |-> disk, settings |-> settings,
     recently_used_sessions |-> recently_used_sessions,
     initial_sessions_to_handle |-> initial_sessions_to_handle,
     clients |-> clients, main_stack |-> main_stack, pages |-> pages,
     visible_child |-> visible_child, login |-> login,
     next_client_id |-> next_client_id, clock |-> clock, tdlib |-> tdlib,
     get_me |-> get_me, me |-> me, removals |-> removals, closed |-> closed,
     out_of_ids |-> FALSE, delivered |-> NoSession, forwarded |-> "",
     spawned |-> <<>>, last_client_id |-> last_client_id]

\* The state the callback leaves behind.  A panic ends the process: what it
\* held in memory is gone, the data directory and the settings stay.
Leaves(s, op) ==
    /\ ~s.out_of_ids
    /\ last' = op
    /\ delivered' = s.delivered
    /\ forwarded' = s.forwarded
    /\ spawned' = s.spawned
    /\ UNCHANGED <<test_dc, last_client_id>>
    /\ data_dir' = s.data_dir
    /\ IF s.pc = "aborted"
       THEN /\ pc' = "aborted"
            /\ UNCHANGED <<disk, settings>>
            /\ recently_used_sessions' = <<>>
            /\ initial_sessions_to_handle' = 0
            /\ clients' = <<>>
            /\ main_stack' = "login"
            /\ pages' = <<>>
            /\ visible_child' = NoSession
            /\ login' = NoLogin
            /\ next_client_id' = 1
            /\ clock' = StartTime
            /\ tdlib' = <<>>
            /\ get_me' = <<>>
            /\ me' = <<>>
            /\ removals' = <<>>
            /\ closed' = {}
       ELSE /\ pc' = s.pc
            /\ disk' = s.disk
            /\ settings' = s.settings
            /\ recently_used_sessions' = s.recently_used_sessions
            /\ initial_sessions_to_handle' = s.initial_sessions_to_handle
            /\ clients' = s.clients
            /\ main_stack' = s.main_stack
            /\ pages' = s.pages
            /\ visible_child' = s.visible_child
            /\ login' = s.login
            /\ next_client_id' = s.next_client_id
            /\ clock' = s.clock
            /\ tdlib' = s.tdlib
            /\ get_me' = s.get_me
            /\ me' = s.me
            /\ removals' = s.removals
            /\ closed' = s.closed

\* RUNTIME.spawn: the calls the callback spawned join those not yet run.  The
\* session manager never reads what becomes of them, and only the
\* specification that starts with runtime.followed follows them.
Spawns(s) ==
    /\ online' = online
    /\ runtime' = IF runtime.followed
                  THEN [runtime EXCEPT !.tasks = @ \o s.spawned]
                  ELSE runtime
    /\ Len(runtime'.tasks) <= MaxPending

\* Callback op runs to its end on the main loop and leaves s behind.
Becomes(s, op) ==
    /\ \E left \in {s} : Leaves(left, op) /\ Spawns(left)
    /\ UNCHANGED blocked_on

\* panic!() and unwrap() on None or Err.
Panic(s) == [s EXCEPT !.pc = "aborted"]

\* HashMap::insert.
Insert(map, key, value) ==
    [k \in DOMAIN map \cup {key} |-> IF k = key THEN value ELSE map[k]]

\* HashMap::remove.
Remove(map, key) == [k \in DOMAIN map \ {key} |-> map[k]]

\* ------------------------------------------------- TDLib requests (tdgrand)

NoReq == [kind |-> NoRequest, by_login |-> FALSE, arg |-> <<>>]

\* arg is the DatabaseInfo of a "parameters" request, the phone number of a
\* "phone" request.
Req(kind, by_login, arg) == [kind |-> kind, by_login |-> by_login, arg |-> arg]

\* A function of tdgrand::functions called for client_id: the request is in
\* flight until TDLib accepts or rejects it.
Send(s, client_id, req) ==
    IF client_id \in DOMAIN s.tdlib
    THEN [s EXCEPT !.tdlib[client_id].request = req]
    ELSE s

\* utils::log_out: functions::log_out(client_id) spawned on the runtime.
log_out(s, client_id) ==
    IF client_id \in DOMAIN s.tdlib
    THEN [s EXCEPT !.tdlib[client_id].logout = TRUE]
    ELSE s

\* tdgrand::create_client() followed by send_log_level(client_id): the client
\* exists at TDLib and will send its first update.
create_client(s) ==
    [s EXCEPT !.next_client_id = @ + 1,
              !.tdlib = Insert(@, s.next_client_id,
                               [state |-> "Created", request |-> NoReq, logout |-> FALSE,
                                database |-> <<>>, phone |-> <<>>]),
              !.out_of_ids = @ \/ s.next_client_id > s.last_client_id]

\* ------------------------------------------------- the stacks (gtk::Stack)

\* save_recently_used_sessions: the in-memory list overwrites the settings value.
save_recently_used_sessions(s) == [s EXCEPT !.settings = s.recently_used_sessions]

\* A call of tdgrand::functions spawned for a client: set_online(client_id,
\* value), or functions::close(client_id).
Call(client_id, fn, value) == [client_id |-> client_id, fn |-> fn, value |-> value]

\* transfer_online_status: one set_online call is spawned for every client
\* whose record is LoggedIn (in the order of clients.values(), which is of no
\* account: the runtime runs them in any order).
transfer_online_status(s, active_client_id) ==
    LET ids == Ascending({id \in DOMAIN s.clients : s.clients[id].state = LoggedIn})
        calls == [i \in 1..Len(ids) |->
                     Call(s.clients[ids[i]].session.client_id, "set_online",
                          s.clients[ids[i]].session.client_id = active_client_id)]
    IN [s EXCEPT !.spawned = @ \o calls]

\* What close_clients does for the clients ids, in order: set_online(client_id,
\* false) and, chained to it by and_then, functions::close(client_id), which is
\* called only when set_online returned Ok.  failing are the clients whose
\* set_online call TDLib answers with an error.
RECURSIVE close_sessions_future(_, _)
close_sessions_future(ids, failing) ==
    IF ids = <<>> THEN <<>>
    ELSE LET client_id == Head(ids)
         IN <<Call(client_id, "set_online", FALSE)>>
            \o (IF client_id \in failing THEN <<>>
                ELSE <<Call(client_id, "close", FALSE)>>)
            \o close_sessions_future(Tail(ids), failing)

\* close_clients, called by the application window on closing: the calls are
\* made for the clients whose record is Auth or LoggedIn, and the calling
\* thread blocks until all of them have returned.
close_clients(s, failing) ==
    LET ids == Ascending({id \in DOMAIN s.clients :
                             s.clients[id].state.tag \in {"Auth", "LoggedIn"}})
    IN [s EXCEPT !.spawned = @ \o close_sessions_future(ids, failing),
                 !.pc = "closed"]

\* A plausible slip of on_active_session_changed: the list is not saved.
on_active_session_changed_unsaved(s) ==
    IF s.visible_child = NoSession THEN s
    ELSE LET transferred == transfer_online_status(s, s.visible_child.client_id)
             name == s.visible_child.directory_base_name
         IN IF s.main_stack # "sessions" THEN transferred
            ELSE [transferred EXCEPT !.recently_used_sessions =
                                         Append(remove_from_vec(@, name), name)]

\* on_active_session_changed, connected to notify::visible-child of both stacks.
on_active_session_changed(s) ==
    IF s.visible_child = NoSession THEN s
    ELSE LET transferred == transfer_online_status(s, s.visible_child.client_id)
             name == s.visible_child.directory_base_name
         IN IF s.main_stack # "sessions" THEN transferred
            ELSE save_recently_used_sessions(
                     [transferred EXCEPT !.recently_used_sessions =
                                             Append(remove_from_vec(@, name), name)])

\* sessions.set_visible_child / pages().select_item: notifies only on a change.
sessions_set_visible_child(s, session) ==
    IF s.visible_child = session THEN s
    ELSE on_active_session_changed([s EXCEPT !.visible_child = session])

\* main_stack.set_visible_child; the handler connected in constructed() calls
\* on_active_session_changed when the new visible child is the sessions stack.
main_stack_set_visible_child(s, child) ==
    IF s.main_stack = child THEN s
    ELSE IF child = "sessions"
         THEN on_active_session_changed([s EXCEPT !.main_stack = child])
         ELSE [s EXCEPT !.main_stack = child]

\* sessions.add_child: the first child added becomes the visible child.
sessions_add_child(s, session) ==
    LET added == [s EXCEPT !.pages = Append(@, session)]
    IN IF s.visible_child = NoSession
       THEN on_active_session_changed([added EXCEPT !.visible_child = session])
       ELSE added

\* sessions.remove: when the visible child is removed the stack shows its first
\* remaining child, or none.
sessions_remove(s, session) ==
    LET pos == Position(s.pages, session)
        left == VecRemove(s.pages, pos)
        removed == [s EXCEPT !.pages = left]
    IN IF pos = 0 THEN s
       ELSE IF s.visible_child = session
            THEN on_active_session_changed(
                     [removed EXCEPT !.visible_child =
                                         IF left = <<>> THEN NoSession ELSE left[1]])
            ELSE removed

\* switch_to_sessions(pos); pos = 0 stands for None, pos = i + 1 for Some(i).
switch_to_sessions(s, pos) ==
    LET shown == main_stack_set_visible_child(s, "sessions")
    IN IF pos = 0 THEN shown ELSE sessions_set_visible_child(shown, shown.pages[pos])

\* ---------------------------------------------------------- Login (login.rs)

\* A plausible slip of login_client: the session is not kept.
login_client_drops_session(s, client_id, session) ==
    [s EXCEPT !.login.client_id = client_id, !.login.session = NoSession]

\* Login::login_client.
login_client(s, client_id, session) ==
    [s EXCEPT !.login.client_id = client_id, !.login.session = session]

\* Login::navigate_to_page: shows the page and unfreezes.
navigate_to_page(s, page) == [s EXCEPT !.login.page = page, !.login.frozen = FALSE]

\* add_logged_in_session up to the do_async call: functions::get_me(client_id)
\* is in flight, the closure holds session and visible.
add_logged_in_session(s, client_id, session, visible) ==
    [s EXCEPT !.get_me = Insert(@, client_id,
                                [status |-> "sent", session |-> session,
                                 visible |-> visible, phone_number |-> <<>>])]

\* Login::set_authorization_state.
set_authorization_state(s, state) ==
    LET got == [s EXCEPT !.forwarded = state]
    IN CASE state = "WaitTdlibParameters" ->
               IF s.login.session = NoSession THEN Panic(got)
               ELSE Send(got, s.login.client_id,
                         Req("parameters", TRUE,
                             DatabaseInfo(s.login.session.directory_base_name,
                                          s.login.session.use_test_dc)))
         [] state = "WaitEncryptionKey" ->
               Send(got, s.login.client_id, Req("key", TRUE, <<>>))
         [] state = "WaitPhoneNumber" -> navigate_to_page(got, "phone-number-page")
         [] state = "WaitCode" -> navigate_to_page(got, "code-page")
         [] state = "WaitOtherDeviceConfirmation" -> navigate_to_page(got, "qr-code-page")
         [] state = "Ready" ->
               IF s.login.session = NoSession THEN Panic(got)
               ELSE add_logged_in_session([got EXCEPT !.login.session = NoSession,
                                                      !.login.frozen = TRUE],
                                          s.login.client_id, s.login.session, TRUE)
         [] OTHER -> got

\* ------------------------------------------ SessionManager (session_manager.rs)

\* Iterator::find_map over the positions: the first of the positions that
\* match, 0 for None.
FindPage(matching) ==
    IF matching = {} THEN 0
    ELSE CHOOSE i \in matching : \A j \in matching : i <= j

\* String::replace(" ", "").
RECURSIVE replace_spaces(_)
replace_spaces(str) ==
    IF str = <<>> THEN <<>>
    ELSE (IF Head(str) = " " THEN <<>> ELSE <<Head(str)>>) \o replace_spaces(Tail(str))

\* A plausible slip of session_index_for: the test-dc flag is not compared.
session_index_for_any_dc(pgs, phone_of, on_test_dc, phone_number_digits) ==
    LET matches(session) ==
            replace_spaces(phone_of[session.client_id]) = phone_number_digits
    IN FindPage({i \in 1..Len(pgs) : matches(pgs[i])})

\* session_index_for over the pages pgs, phone_of giving each session's own
\* phone number (session.me().phone_number()): 0 for None, i + 1 for Some(i).
session_index_for(pgs, phone_of, on_test_dc, phone_number_digits) ==
    LET matches(session) ==
            /\ on_test_dc = session.use_test_dc
            /\ replace_spaces(phone_of[session.client_id]) = phone_number_digits
    IN FindPage({i \in 1..Len(pgs) : matches(pgs[i])})

\* A plausible slip of add_existing_session: the client is registered as one
\* that has to go through the login.
add_existing_session_unauthorized(s, database_info) ==
    LET client_id == s.next_client_id
        created == create_client(s)
    IN [created EXCEPT !.clients =
            Insert(@, client_id, Client(Session(client_id, database_info), Auth(FALSE)))]

\* add_existing_session.
add_existing_session(s, database_info) ==
    LET client_id == s.next_client_id
        created == create_client(s)
    IN [created EXCEPT !.clients =
            Insert(@, client_id, Client(Session(client_id, database_info), Auth(TRUE)))]

\* A plausible slip of init_new_session: the main stack is left as it is.
init_new_session_hidden(s, client_id, use_test_dc, now) ==
    LET database_info ==
            DatabaseInfo(generate_database_dir_base_name(now, s.disk), use_test_dc)
        session == Session(client_id, database_info)
        inserted == [s EXCEPT !.clock = now,
                              !.clients = Insert(@, client_id, Client(session, Auth(FALSE)))]
    IN login_client(inserted, client_id, session)

\* init_new_session, the name generated at clock value now.
init_new_session(s, client_id, use_test_dc, now) ==
    LET database_info ==
            DatabaseInfo(generate_database_dir_base_name(now, s.disk), use_test_dc)
        session == Session(client_id, database_info)
        inserted == [s EXCEPT !.clock = now,
                              !.clients = Insert(@, client_id, Client(session, Auth(FALSE)))]
    IN main_stack_set_visible_child(login_client(inserted, client_id, session), "login")

\* add_new_session.
add_new_session(s, use_test_dc, now) ==
    init_new_session(create_client(s), s.next_client_id, use_test_dc, now)

\* A plausible slip of set_session_logging_out: the state of the client is not
\* looked at.
set_session_logging_out_of_any(s, client, configured_test_dc, now) ==
    LET removed == sessions_remove(s, client.session)
        pruned == [removed EXCEPT !.recently_used_sessions =
                       remove_from_vec(@, database_dir_base_name(client))]
        recent == pruned.recently_used_sessions
        is_last(session) == session.directory_base_name = recent[Len(recent)]
        found == IF recent = <<>> THEN 0
                 ELSE FindPage({i \in 1..Len(pruned.pages) : is_last(pruned.pages[i])})
        active_session_index == IF found = 0 THEN 1 ELSE found
    IN save_recently_used_sessions(
           IF Len(pruned.pages) > 0
           THEN sessions_set_visible_child(pruned, pruned.pages[active_session_index])
           ELSE add_new_session(pruned, configured_test_dc, now))

\* set_session_logging_out.
set_session_logging_out(s, client, configured_test_dc, now) ==
    IF client.state # LoggedIn THEN s
    ELSE LET removed == sessions_remove(s, client.session)
             pruned == [removed EXCEPT !.recently_used_sessions =
                            remove_from_vec(@, database_dir_base_name(client))]
             recent == pruned.recently_used_sessions
             is_last(session) == session.directory_base_name = recent[Len(recent)]
             found == IF recent = <<>> THEN 0
                      ELSE FindPage({i \in 1..Len(pruned.pages) : is_last(pruned.pages[i])})
             active_session_index == IF found = 0 THEN 1 ELSE found
         IN save_recently_used_sessions(
                IF Len(pruned.pages) > 0
                THEN sessions_set_visible_child(pruned, pruned.pages[active_session_index])
                ELSE add_new_session(pruned, configured_test_dc, now))

\* A plausible slip of the Closed arm: the directory is removed whatever the
\* state of the client was.
closed_arm_always_removes(s, client_id) ==
    IF client_id \notin DOMAIN s.clients THEN Panic(s)
    ELSE LET client == s.clients[client_id]
         IN [s EXCEPT !.clients = Remove(@, client_id),
                      !.closed = @ \cup {client_id},
                      !.removals = Append(@, database_dir_base_name(client)),
                      !.disk = Remove(@, database_dir_base_name(client))]

\* handle_authorization_state, the arm for AuthorizationState::Closed.
closed_arm(s, client_id) ==
    IF client_id \notin DOMAIN s.clients THEN Panic(s)
    ELSE LET client == s.clients[client_id]
             removed == [s EXCEPT !.clients = Remove(@, client_id),
                                  !.closed = @ \cup {client_id}]
         IN IF client.state = LoggingOut
            THEN [removed EXCEPT !.removals = Append(@, database_dir_base_name(client)),
                                 !.disk = Remove(@, database_dir_base_name(client))]
            ELSE removed

\* A plausible slip of the fallback: the number of sessions loaded at start is
\* not looked at.
may_hand_over_ignoring_count(s, database_info, configured_test_dc) ==
    configured_test_dc = database_info.use_test_dc

\* The condition under which a session found at start is handed over to Login.
may_hand_over(s, database_info, configured_test_dc) ==
    /\ configured_test_dc = database_info.use_test_dc
    /\ s.initial_sessions_to_handle = 1

\* A plausible slip of the silent resume: the parameters carry the configured
\* use_test_dc instead of the session's.
skip_login_configured_dc(s, state, client_id, client, configured_test_dc) ==
    CASE state = "WaitTdlibParameters" ->
            Send(s, client_id,
                 Req("parameters", FALSE,
                     DatabaseInfo(client.session.directory_base_name,
                                  configured_test_dc)))
      [] state = "WaitEncryptionKey" -> Send(s, client_id, Req("key", FALSE, <<>>))
      [] state = "Ready" ->
            LET recent == s.recently_used_sessions
                is_last_used == /\ recent # <<>>
                                /\ database_dir_base_name(client) = recent[Len(recent)]
            IN add_logged_in_session(s, client_id, client.session, is_last_used)
      [] OTHER ->
            LET database_info == DatabaseInfo(client.session.directory_base_name,
                                              client.session.use_test_dc)
            IN IF may_hand_over(s, database_info, configured_test_dc)
               THEN set_authorization_state(
                        login_client(
                            [s EXCEPT !.clients =
                                 Insert(@, client_id, Client(client.session, Auth(FALSE)))],
                            client_id, client.session),
                        state)
               ELSE log_out(s, client_id)

\* handle_authorization_state for a client that "maybe" is authorized already.
skip_login(s, state, client_id, client, configured_test_dc) ==
    CASE state = "WaitTdlibParameters" ->
            Send(s, client_id,
                 Req("parameters", FALSE,
                     DatabaseInfo(client.session.directory_base_name,
                                  client.session.use_test_dc)))
      [] state = "WaitEncryptionKey" -> Send(s, client_id, Req("key", FALSE, <<>>))
      [] state = "Ready" ->
            LET recent == s.recently_used_sessions
                is_last_used == /\ recent # <<>>
                                /\ database_dir_base_name(client) = recent[Len(recent)]
            IN add_logged_in_session(s, client_id, client.session, is_last_used)
      [] OTHER ->
            LET database_info == DatabaseInfo(client.session.directory_base_name,
                                              client.session.use_test_dc)
            IN IF may_hand_over(s, database_info, configured_test_dc)
               THEN set_authorization_state(
                        login_client(
                            [s EXCEPT !.clients =
                                 Insert(@, client_id, Client(client.session, Auth(FALSE)))],
                            client_id, client.session),
                        state)
               ELSE log_out(s, client_id)

\* A plausible slip of handle_authorization_state: the LoggingOut record is
\* built from the session shown after set_session_logging_out.
handle_authorization_state_of_shown(s, state, client_id, configured_test_dc, now) ==
    IF state = "Closed" THEN closed_arm(s, client_id)
    ELSE IF client_id \notin DOMAIN s.clients THEN Panic(s)
    ELSE LET client == s.clients[client_id]
         IN IF state = "LoggingOut"
            THEN LET out == set_session_logging_out(s, client, configured_test_dc, now)
                     session == IF out.visible_child = NoSession THEN client.session
                                ELSE out.visible_child
                 IN [out EXCEPT !.clients =
                         Insert(@, client_id, Client(session, LoggingOut))]
            ELSE IF client.state.tag # "Auth" THEN s
            ELSE IF ~client.state.maybe_authorized
                 THEN set_authorization_state(s, state)
                 ELSE skip_login(s, state, client_id, client, configured_test_dc)

\* A plausible slip of handle_authorization_state: Login is given the states
\* of the client it is logging in only.
handle_authorization_state_of_login_client(s, state, client_id, configured_test_dc, now) ==
    IF state = "Closed" THEN closed_arm(s, client_id)
    ELSE IF client_id \notin DOMAIN s.clients THEN Panic(s)
    ELSE LET client == s.clients[client_id]
         IN IF state = "LoggingOut"
            THEN LET out == set_session_logging_out(s, client, configured_test_dc, now)
                 IN [out EXCEPT !.clients =
                         Insert(@, client_id, Client(client.session, LoggingOut))]
            ELSE IF client.state.tag # "Auth" THEN s
            ELSE IF ~client.state.maybe_authorized
                 THEN IF client_id = s.login.client_id
                      THEN set_authorization_state(s, state) ELSE s
                 ELSE skip_login(s, state, client_id, client, configured_test_dc)

\* handle_authorization_state.
handle_authorization_state(s, state, client_id, configured_test_dc, now) ==
    IF state = "Closed" THEN closed_arm(s, client_id)
    ELSE IF client_id \notin DOMAIN s.clients THEN Panic(s)
    ELSE LET client == s.clients[client_id]
         IN IF state = "LoggingOut"
            THEN LET out == set_session_logging_out(s, client, configured_test_dc, now)
                 IN [out EXCEPT !.clients =
                         Insert(@, client_id, Client(client.session, LoggingOut))]
            ELSE IF client.state.tag # "Auth" THEN s
            ELSE IF ~client.state.maybe_authorized
                 THEN set_authorization_state(s, state)
                 ELSE skip_login(s, state, client_id, client, configured_test_dc)

\* An Update of tdgrand::enums: Update::AuthorizationState with its
\* authorization state, or any of the other updates.
AuthorizationStateUpdate(state) == [tag |-> "AuthorizationState", authorization_state |-> state]

OtherUpdate == [tag |-> "Other", authorization_state |-> ""]

\* A plausible slip of handle_update: the update goes to the active session.
handle_update_to_active(s, update, client_id, configured_test_dc, now) ==
    IF update.tag = "AuthorizationState"
    THEN handle_authorization_state(s, update.authorization_state, client_id,
                                    configured_test_dc, now)
    ELSE IF client_id \notin DOMAIN s.clients THEN Panic(s)
    ELSE [s EXCEPT !.delivered = s.visible_child]

\* handle_update.  Session::handle_update works on the session only: the
\* session manager's state is as before.
handle_update(s, update, client_id, configured_test_dc, now) ==
    IF update.tag = "AuthorizationState"
    THEN handle_authorization_state(s, update.authorization_state, client_id,
                                    configured_test_dc, now)
    ELSE IF client_id \notin DOMAIN s.clients THEN Panic(s)
    ELSE [s EXCEPT !.delivered = s.clients[client_id].session]

\* A plausible slip of the closure: the clients still authorizing are not
\* looked at.
add_logged_in_session_done_ignoring_auth(s, client_id) ==
    LET pending == s.get_me[client_id]
        session == pending.session
        taken == [s EXCEPT !.get_me = Remove(@, client_id),
                           !.me = Insert(@, session.client_id, pending.phone_number)]
        added == sessions_add_child(taken, session)
        logged_in == [added EXCEPT !.clients =
                          Insert(@, client_id, Client(session, LoggedIn))]
    IN IF logged_in.main_stack # "sessions" \/ pending.visible
       THEN main_stack_set_visible_child(
                sessions_set_visible_child(logged_in, session), "sessions")
       ELSE logged_in

\* The closure of add_logged_in_session, run with the result of get_me.
add_logged_in_session_done(s, client_id) ==
    LET pending == s.get_me[client_id]
        session == pending.session
        taken == [s EXCEPT !.get_me = Remove(@, client_id),
                           !.me = Insert(@, session.client_id, pending.phone_number)]
        added == sessions_add_child(taken, session)
        logged_in == [added EXCEPT !.clients =
                          Insert(@, client_id, Client(session, LoggedIn))]
        auth_session_present ==
            \E id \in DOMAIN logged_in.clients : logged_in.clients[id].state.tag = "Auth"
    IN IF (logged_in.main_stack # "sessions" /\ ~auth_session_present) \/ pending.visible
       THEN main_stack_set_visible_child(
                sessions_set_visible_child(logged_in, session), "sessions")
       ELSE logged_in

\* ------------------------------------------------------------ the TDLib side

\* Phone numbers of the accounts, as TDLib reports them in User::phone_number.
Phones == {<<"1">>, <<"2">>}

\* What the user may type into the phone number entry.
PhoneEntries == {<<"+", "1">>, <<"2">>}

\* chars().filter(|c| c.is_digit(10)).
RECURSIVE digits_of(_)
digits_of(str) ==
    IF str = <<>> THEN <<>>
    ELSE (IF Head(str) \in {"0", "1", "2", "3", "4", "5", "6", "7", "8", "9"}
          THEN <<Head(str)>> ELSE <<>>) \o digits_of(Tail(str))

\* Whether TDLib, in authorization state state, accepts a request of this kind.
Accepts(state, kind) ==
    \/ state = "WaitTdlibParameters" /\ kind = "parameters"
    \/ state = "WaitEncryptionKey" /\ kind = "key"
    \/ state \in {"WaitPhoneNumber", "WaitCode"} /\ kind = "phone"
    \/ state = "WaitPhoneNumber" /\ kind = "qr"
    \/ state = "WaitCode" /\ kind = "code"

\* The authorization states TDLib may send next for a client.
NextStates(td) ==
    (IF td.state = "Created" THEN {"WaitTdlibParameters"} ELSE {})
    \cup (IF Accepts(td.state, td.request.kind)
          THEN CASE td.request.kind = "parameters" -> {"WaitEncryptionKey"}
                 [] td.request.kind = "key" ->
                        {"WaitPhoneNumber"}
                        \cup (IF td.database \in OldNames THEN {"Ready"} ELSE {})
                 [] td.request.kind = "phone" -> {"WaitCode"}
                 [] td.request.kind = "qr" -> {"WaitOtherDeviceConfirmation"}
                 [] td.request.kind = "code" -> {"Ready"}
          ELSE {})
    \cup (IF td.state = "WaitOtherDeviceConfirmation"
          THEN {"WaitOtherDeviceConfirmation", "Ready"} ELSE {})
    \cup (IF td.logout /\ td.state \notin {"Created", "LoggingOut", "Closed"}
          THEN {"LoggingOut"} ELSE {})
    \cup (IF td.state = "Ready" THEN {"LoggingOut"} ELSE {})
    \cup (IF td.state = "LoggingOut" THEN {"Closed"} ELSE {})

\* TDLib's own step to authorization state state: an accepted request is
\* consumed, accepted parameters create the database directory, an accepted
\* phone number is the account's.
TdStep(s, client_id, state) ==
    LET td == s.tdlib[client_id]
        accepted == Accepts(td.state, td.request.kind) /\ state # "LoggingOut"
        info == td.request.arg
    IN [s EXCEPT !.tdlib[client_id] =
                     [td EXCEPT !.state = state,
                                !.request = IF accepted THEN NoReq ELSE @,
                                !.database = IF accepted /\ td.request.kind = "parameters"
                                             THEN info.directory_base_name ELSE @,
                                !.phone = IF accepted /\ td.request.kind = "phone"
                                          THEN digits_of(td.request.arg) ELSE @],
                 !.disk = IF accepted /\ td.request.kind = "parameters"
                             /\ info.directory_base_name \notin DOMAIN @
                          THEN Insert(@, info.directory_base_name,
                                      SessionDir(info.use_test_dc))
                          ELSE @]

\* -------------------------------------------------------------------- actions

Op(op, client_id, arg) == [op |-> op, client_id |-> client_id, arg |-> arg]

Running == pc = "run"

\* database_infos.into_iter().for_each(add_existing_session).
RECURSIVE add_existing_sessions(_, _)
add_existing_sessions(s, database_infos) ==
    IF database_infos = <<>> THEN s
    ELSE add_existing_sessions(add_existing_session(s, Head(database_infos)),
                               Tail(database_infos))

\* A plausible slip of constructed: an error of analyze_data_dir is taken for
\* an empty data directory.
constructed_ignoring_error(s, datadir_state, configured_test_dc, now) ==
    CASE datadir_state.tag \in {"Err", "Empty"} ->
           add_new_session(s, configured_test_dc, now)
      [] OTHER ->
           add_existing_sessions(
               [s EXCEPT !.recently_used_sessions = datadir_state.recently_used_sessions,
                         !.initial_sessions_to_handle = Len(datadir_state.database_infos)],
               datadir_state.database_infos)

\* A plausible slip of constructed: the new session is always a production one.
constructed_production_dc(s, datadir_state, configured_test_dc, now) ==
    CASE datadir_state.tag = "Err" -> Panic(s)
      [] datadir_state.tag = "Empty" -> add_new_session(s, FALSE, now)
      [] OTHER ->
           add_existing_sessions(
               [s EXCEPT !.recently_used_sessions = datadir_state.recently_used_sessions,
                         !.initial_sessions_to_handle = Len(datadir_state.database_infos)],
               datadir_state.database_infos)

\* constructed, from where analyze_data_dir has answered: configured_test_dc is
\* APPLICATION_OPTS.test_dc.
constructed(s, datadir_state, configured_test_dc, now) ==
    CASE datadir_state.tag = "Err" -> Panic(s)
      [] datadir_state.tag = "Empty" -> add_new_session(s, configured_test_dc, now)
      [] OTHER ->
           add_existing_sessions(
               [s EXCEPT !.recently_used_sessions = datadir_state.recently_used_sessions,
                         !.initial_sessions_to_handle = Len(datadir_state.database_infos)],
               datadir_state.database_infos)

\* The closure given to do_async in constructed(): the result of
\* analyze_data_dir arrives.
Boot ==
    /\ pc = "boot"
    /\ \E order \in Orders(DOMAIN disk), now \in Times :
         LET datadir_state == analyze_data_dir(data_dir, disk, order, settings)
             started == [Now EXCEPT !.pc = "run", !.data_dir = data_dir_after(@)]
         IN /\ now >= clock
            /\ Becomes(constructed(started, datadir_state, test_dc, now),
                       Op("constructed", 0, datadir_state.tag))

\* The authorization states of the model; "WaitCode" stands for every step
\* between the phone number and Ready (code, registration, password).
AuthorizationStates ==
    {"WaitTdlibParameters", "WaitEncryptionKey", "WaitPhoneNumber", "WaitCode",
     "WaitOtherDeviceConfirmation", "Ready", "LoggingOut", "Closed"}

\* TDLib sends authorization state state for client_id and handle_update runs.
Update(client_id, state) ==
    /\ Running
    /\ client_id \in DOMAIN tdlib
    /\ state \in NextStates(tdlib[client_id])
    /\ \E now \in Times :
         /\ now >= clock
         /\ Becomes(handle_update(TdStep(Now, client_id, state),
                                  AuthorizationStateUpdate(state), client_id, test_dc, now),
                    Op("handle_update", client_id, state))

\* handle_update for an Update::AuthorizationState.
HandleUpdate ==
    \E client_id \in ClientIds, state \in AuthorizationStates : Update(client_id, state)

\* A plausible slip of the closures: an error is always only shown.
request_failed_shown(s, request) ==
    IF request.kind \in {"phone", "qr", "code"}
    THEN [s EXCEPT !.login.frozen = FALSE]
    ELSE s

\* A plausible slip of the closures: an error always panics.
request_failed_fatal(s, request) == Panic(s)

\* The closure given to do_async with the request, run with an error: the
\* closures of the session manager panic, those of Login show the error in a
\* label, and handle_user_error unfreezes Login.
request_failed(s, request) ==
    IF ~request.by_login THEN Panic(s)
    ELSE IF request.kind \in {"phone", "qr", "code"}
         THEN [s EXCEPT !.login.frozen = FALSE]
         ELSE s

\* TDLib rejects the request in flight for a client; the closure given to
\* do_async runs with the error.
RequestFails ==
    /\ Running
    /\ \E client_id \in DOMAIN tdlib :
         LET td == tdlib[client_id]
             dropped == [Now EXCEPT !.tdlib[client_id].request = NoReq]
         IN /\ td.request.kind # NoRequest
            /\ td.state # "Created"
            /\ td.request.kind \in {"phone", "qr", "code"}
                  \/ ~Accepts(td.state, td.request.kind)
            /\ Becomes(request_failed(dropped, td.request),
                       Op("request_fails", client_id, td.request.kind))

\* TDLib answers get_me for an authorized client with the account's user.
GetMeAnswered ==
    /\ Running
    /\ \E client_id \in DOMAIN get_me, phone_number \in Phones :
         /\ get_me[client_id].status = "sent"
         /\ client_id \in DOMAIN tdlib
         /\ tdlib[client_id].state = "Ready"
         /\ tdlib[client_id].phone \in {<<>>, phone_number}
         /\ Becomes([Now EXCEPT !.get_me[client_id].status = "ok",
                                !.get_me[client_id].phone_number = phone_number,
                                !.tdlib[client_id].phone = phone_number],
                    Op("get_me", client_id, "ok"))

\* TDLib answers get_me with an error: result.unwrap() in the closure panics.
GetMeFails ==
    /\ Running
    /\ \E client_id \in DOMAIN get_me :
         /\ get_me[client_id].status = "sent"
         /\ client_id \in DOMAIN tdlib => tdlib[client_id].state # "Ready"
         /\ Becomes(Panic(Now), Op("get_me", client_id, "err"))

\* The closure of add_logged_in_session runs with the user.
AddLoggedInSessionDone ==
    /\ Running
    /\ \E client_id \in DOMAIN get_me :
         /\ get_me[client_id].status = "ok"
         /\ Becomes(add_logged_in_session_done(Now, client_id),
                    Op("add_logged_in_session", client_id, "done"))

LoginUsable == Running /\ main_stack = "login" /\ ~login.frozen

\* Login::previous on the phone number page: the login is aborted.
PreviousOnPhoneNumberPage ==
    /\ LoginUsable
    /\ login.page = "phone-number-page"
    /\ Len(pages) > 0
    /\ Becomes(switch_to_sessions(log_out([Now EXCEPT !.login.frozen = TRUE],
                                          login.client_id), 0),
               Op("previous", login.client_id, login.page))

\* Login::previous on the QR code page: leave_qr_code_page.
LeaveQrCodePage ==
    /\ LoginUsable
    /\ login.page = "qr-code-page"
    /\ \E now \in Times :
         /\ now >= clock
         /\ Becomes(IF login.session = NoSession THEN Panic(Now)
                    ELSE add_new_session(log_out(Now, login.client_id),
                                         login.session.use_test_dc, now),
                    Op("previous", login.client_id, login.page))

\* Login::previous on any other page: back to the phone number page.
PreviousOnOtherPage ==
    /\ LoginUsable
    /\ login.page = "code-page"
    /\ Becomes(navigate_to_page(Now, "phone-number-page"),
               Op("previous", login.client_id, login.page))

\* Login::next on the phone number page: send_phone_number.
SendPhoneNumber ==
    /\ LoginUsable
    /\ login.page = "phone-number-page"
    /\ \E phone_number \in PhoneEntries :
         LET frozen == [Now EXCEPT !.login.frozen = TRUE]
             pos == session_index_for(pages, me, login.session.use_test_dc,
                                      digits_of(phone_number))
         IN Becomes(IF login.session = NoSession THEN Panic(Now)
                    ELSE IF pos # 0
                         THEN switch_to_sessions(log_out(frozen, login.client_id), pos)
                         ELSE Send(frozen, login.client_id,
                                   Req("phone", TRUE, phone_number)),
                    Op("send_phone_number", login.client_id, phone_number))

\* Login::next on the code page: send_code.
SendCode ==
    /\ LoginUsable
    /\ login.page = "code-page"
    /\ Becomes(Send([Now EXCEPT !.login.frozen = TRUE], login.client_id,
                    Req("code", TRUE, <<>>)),
               Op("send_code", login.client_id, login.page))

\* Login::request_qr_code.
RequestQrCode ==
    /\ LoginUsable
    /\ login.page = "phone-number-page"
    /\ Becomes(Send([Now EXCEPT !.login.frozen = TRUE], login.client_id,
                    Req("qr", TRUE, <<>>)),
               Op("request_qr_code", login.client_id, login.page))

\* The user picks a session in the session switcher, which selects an item of
\* the model sessions() returns.
SelectSession ==
    /\ Running
    /\ main_stack = "sessions"
    /\ \E pos \in 1..Len(pages) :
         /\ pages[pos] # visible_child
         /\ Becomes(sessions_set_visible_child(Now, pages[pos]),
                    Op("select_item", pages[pos].client_id, pos))

\* The user asks for a new session from within a session: add_new_session.
AddNewSession ==
    /\ Running
    /\ main_stack = "sessions"
    /\ visible_child # NoSession
    /\ \E use_test_dc \in BOOLEAN, now \in Times :
         /\ now >= clock
         /\ Becomes(add_new_session(Now, use_test_dc, now),
                    Op("add_new_session", next_client_id, use_test_dc))

\* ------------------------------------------------------------- specification

\* What the data directory may hold at start: session directories of earlier runs.
StartDisks ==
    UNION {[names -> {SessionDir(FALSE), SessionDir(TRUE)}] : names \in SUBSET OldNames}

\* imp::SessionManager and imp::Login after constructed(), no client created yet.
Constructed ==
    /\ recently_used_sessions = <<>>
    /\ initial_sessions_to_handle = 0
    /\ clients = <<>>
    /\ main_stack = "login"
    /\ pages = <<>>
    /\ visible_child = NoSession
    /\ login = NoLogin
    /\ next_client_id = 1
    /\ clock = StartTime
    /\ tdlib = <<>>
    /\ get_me = <<>>
    /\ me = <<>>
    /\ removals = <<>>
    /\ closed = {}
    /\ last = Op("new", 0, "")
    /\ delivered = NoSession
    /\ forwarded = ""
    /\ spawned = <<>>
    /\ runtime = NotFollowed
    /\ online = <<>>
    /\ blocked_on = {}
    /\ last_client_id = MaxClients

Init ==
    /\ pc = "boot"
    /\ test_dc \in BOOLEAN
    /\ data_dir \in {"missing", "uncreatable", "ok", "unreadable"}
    /\ disk \in StartDisks
    /\ data_dir # "ok" => disk = <<>>
    /\ settings \in SeqsUpTo(OldNames \cup {StaleName}, MaxPersisted)
    /\ Constructed

Next ==
    \/ Boot
    \/ HandleUpdate
    \/ RequestFails
    \/ GetMeAnswered
    \/ GetMeFails
    \/ AddLoggedInSessionDone
    \/ PreviousOnPhoneNumberPage
    \/ LeaveQrCodePage
    \/ PreviousOnOtherPage
    \/ SendPhoneNumber
    \/ SendCode
    \/ RequestQrCode
    \/ SelectSession
    \/ AddNewSession

Spec == Init /\ [][Next]_vars

\* TDLib answers a log-out with LoggingOut and then Closed, and the main loop
\* hands every update it received to handle_update.
LogOutAnswered(client_id) ==
    /\ client_id \in DOMAIN tdlib
    /\ tdlib[client_id].logout
    /\ Update(client_id, "LoggingOut")

Fairness ==
    \A client_id \in ClientIds :
        /\ WF_vars(LogOutAnswered(client_id))
        /\ WF_vars(Update(client_id, "Closed"))

\* The starts with sessions on disk and nothing persisted as recently used.
FairInit ==
    /\ Init
    /\ data_dir = "ok"
    /\ disk # <<>>
    /\ settings = <<>>

FairSpec == FairInit /\ [][Next]_vars /\ Fairness

\* The main loop runs every closure that is due, and TDLib sends the next
\* authorization state of a client, answers get_me and answers a log-out.
\* What the user does is left to the user.
RuntimeFairness ==
    /\ WF_vars(Boot)
    /\ WF_vars(GetMeAnswered)
    /\ WF_vars(AddLoggedInSessionDone)
    /\ \A client_id \in ClientIds :
          /\ WF_vars(LogOutAnswered(client_id))
          /\ \A state \in AuthorizationStates \ {"LoggingOut"} :
                WF_vars(Update(client_id, state))

FairRuntime == FairInit /\ [][Next]_vars /\ RuntimeFairness

\* ------------------------------------------------- requests failing at will

\* TDLib answers the request in flight for a client with an error, whatever the
\* request and the state of the client.
AnyRequestFails ==
    /\ Running
    /\ \E client_id \in DOMAIN tdlib :
         LET td == tdlib[client_id]
             dropped == [Now EXCEPT !.tdlib[client_id].request = NoReq]
         IN /\ td.request.kind # NoRequest
            /\ Becomes(request_failed(dropped, td.request),
                       Op("request_fails", client_id, td.request.kind))

NextFail ==
    \/ Boot
    \/ HandleUpdate
    \/ AnyRequestFails
    \/ SendPhoneNumber
    \/ SendCode
    \/ RequestQrCode

SpecFail == Init /\ [][NextFail]_vars

\* ------------------------------------------- add_new_session called at will

\* add_new_session is public: a caller outside the session manager may call it
\* in any state, and any number of times within one millisecond.
CallAddNewSession ==
    /\ Running
    /\ \E use_test_dc \in BOOLEAN, now \in Times :
         /\ now >= clock
         /\ Becomes(add_new_session(Now, use_test_dc, now),
                    Op("add_new_session", next_client_id, use_test_dc))

NextGen ==
    \/ Boot
    \/ HandleUpdate
    \/ CallAddNewSession

SpecGen == Init /\ [][NextGen]_vars

\* ------------------------------------------------ handle_update called at will

\* handle_update is public and takes any update with any client id: here it is
\* called with an update other than Update::AuthorizationState.
HandleOtherUpdate ==
    /\ Running
    /\ \E client_id \in ClientIds :
         Becomes(handle_update(Now, OtherUpdate, client_id, test_dc, clock),
                 Op("handle_update", client_id, OtherUpdate.tag))

NextDispatch ==
    \/ Boot
    \/ HandleUpdate
    \/ GetMeAnswered
    \/ AddLoggedInSessionDone
    \/ HandleOtherUpdate

SpecDispatch == Init /\ [][NextDispatch]_vars

\* ------------------------------------------------- all sessions logged in

\* The session that add_existing_session and add_logged_in_session made of the
\* i-th directory found at start.
Restored(i) == Session(i, DatabaseInfo(<<i, 0>>, i > 2))

\* The states in which the n sessions found at start are all logged in and one
\* of them is the active session: the sessions are on the stack, the main
\* stack shows the sessions stack, and the recently used sessions, saved to
\* the settings, name sessions of the stack once and the active session last.
AllLoggedIn(followed) ==
    \E n \in 1..MaxLoggedIn :
        /\ pc = "run"
        /\ test_dc \in BOOLEAN
        /\ data_dir = "ok"
        /\ disk = [name \in {<<i, 0>> : i \in 1..n} |-> SessionDir(name[1] > 2)]
        /\ pages = [i \in 1..n |-> Restored(i)]
        /\ clients = [i \in 1..n |-> Client(Restored(i), LoggedIn)]
        /\ tdlib = [i \in 1..n |->
                       [state |-> "Ready", request |-> NoReq, logout |-> FALSE,
                        database |-> <<i, 0>>,
                        phone |-> IF i % 2 = 1 THEN <<"1">> ELSE <<"2">>]]
        /\ me = [i \in 1..n |-> tdlib[i].phone]
        /\ main_stack = "sessions"
        /\ visible_child \in Range(pages)
        /\ recently_used_sessions \in
              {q \in SeqsUpTo({<<i, 0>> : i \in 1..n}, n) :
                  /\ q # <<>>
                  /\ \A i, j \in 1..Len(q) : q[i] = q[j] => i = j
                  /\ q[Len(q)] = visible_child.directory_base_name}
        /\ settings = recently_used_sessions
        /\ initial_sessions_to_handle = n
        /\ login = NoLogin
        /\ next_client_id = n + 1
        /\ clock = StartTime
        /\ get_me = <<>>
        /\ removals = <<>>
        /\ closed = {}
        /\ last = Op("new", 0, "")
        /\ delivered = NoSession
        /\ forwarded = ""
        /\ spawned = <<>>
        /\ runtime = [followed |-> followed, tasks |-> <<>>]
        /\ online = [i \in 1..n |-> i = visible_child.client_id]
        /\ blocked_on = {}

LoggedInInit == AllLoggedIn(FALSE) /\ last_client_id = MaxClients

\* handle_update for an Update::AuthorizationState of any of the clients.
HandleUpdateOfAny ==
    \E client_id \in 1..(MaxLoggedIn + 1), state \in AuthorizationStates :
        Update(client_id, state)

NextLoggedIn ==
    \/ HandleUpdateOfAny
    \/ SelectSession

SpecLoggedIn == LoggedInInit /\ [][NextLoggedIn]_vars

\* The same states, with the calls spawned on the runtime followed from here
\* on: no call is pending, and of the clients the active one alone is online.
OnlineInit == AllLoggedIn(TRUE) /\ last_client_id = MaxClients

\* The sequence without its element at pos.
WithoutAt(seq, pos) == SubSeq(seq, 1, pos - 1) \o SubSeq(seq, pos + 1, Len(seq))

\* The runtime runs one of the set_online calls spawned on it: TDLib sets the
\* client's option "online".  The runtime is multi-threaded and the calls are
\* separate tasks, so any of the pending calls may be the next to reach TDLib.
RunTask ==
    \E pos \in 1..Len(runtime.tasks) :
        LET task == runtime.tasks[pos]
        IN /\ task.fn = "set_online"
           /\ online' = [online EXCEPT ![task.client_id] = task.value]
           /\ runtime' = [runtime EXCEPT !.tasks = WithoutAt(@, pos)]
           /\ UNCHANGED <<pc, test_dc, last_client_id, data_dir, disk, settings,
                          recently_used_sessions, initial_sessions_to_handle,
                          clients, main_stack, pages, visible_child, login,
                          next_client_id, clock, tdlib, get_me, me, removals,
                          closed, last, delivered, forwarded, spawned, blocked_on>>

NextOnline ==
    \/ SelectSession
    \/ RunTask

SpecOnline == OnlineInit /\ [][NextOnline]_vars

\* ------------------------------------------- one session logged in at first

\* One session is logged in and active, and TDLib hands out MaxClients more
\* client ids.
OneLoggedInInit ==
    /\ AllLoggedIn(FALSE)
    /\ Len(pages) = 1
    /\ last_client_id = MaxClients + 1

NextAccount ==
    \/ HandleUpdateOfAny
    \/ RequestFails
    \/ GetMeAnswered
    \/ AddLoggedInSessionDone
    \/ PreviousOnPhoneNumberPage
    \/ LeaveQrCodePage
    \/ PreviousOnOtherPage
    \/ SendPhoneNumber
    \/ SendCode
    \/ RequestQrCode
    \/ SelectSession
    \/ AddNewSession

SpecAccount == OneLoggedInInit /\ [][NextAccount]_vars

\* The window closes: close_clients runs, whatever TDLib answers to the
\* set_online calls.  No callback runs after it.
CloseClients ==
    /\ Running
    /\ \E failing \in SUBSET DOMAIN clients :
         Becomes(close_clients(Now, failing), Op("close_clients", 0, failing))

NextClose ==
    \/ Boot
    \/ HandleUpdate
    \/ GetMeAnswered
    \/ AddLoggedInSessionDone
    \/ CloseClients

SpecClose == Init /\ [][NextClose]_vars

\* ------------------------------------------------ close_clients step by step

\* The starts of a production build with nothing persisted as recently used.
ShutdownInit ==
    /\ Init
    /\ ~test_dc
    /\ data_dir = "ok"
    /\ settings = <<>>

\* What close_clients does not touch.
ManagerUnchanged ==
    UNCHANGED <<test_dc, last_client_id, data_dir, disk, settings, recently_used_sessions,
                initial_sessions_to_handle, clients, main_stack, pages,
                visible_child, login, next_client_id, clock, tdlib, get_me, me,
                removals, closed, delivered, forwarded, runtime, online>>

\* close_clients is called and blocks on close_sessions_future: join_all polls
\* the future of every client whose record is Auth or LoggedIn, which sends
\* its set_online(client_id, false).
BlockOn ==
    /\ Running
    /\ LET ids == Ascending({id \in DOMAIN clients :
                                clients[id].state.tag \in {"Auth", "LoggedIn"}})
           calls == [i \in 1..Len(ids) |-> Call(ids[i], "set_online", FALSE)]
       IN /\ spawned' = calls
          /\ blocked_on' = Range(calls)
    /\ pc' = "closing"
    /\ last' = Op("close_clients", 0, "block_on")
    /\ ManagerUnchanged

\* TDLib answers one of the calls close_clients is blocked on, with Ok or with
\* an error: and_then sends functions::close after an Ok for set_online, and
\* the client's future is complete otherwise.
Answered ==
    /\ pc = "closing"
    /\ \E call \in blocked_on, ok \in BOOLEAN :
         LET then == IF call.fn = "set_online" /\ ok
                     THEN <<Call(call.client_id, "close", FALSE)>>
                     ELSE <<>>
         IN /\ blocked_on' = (blocked_on \ {call}) \cup Range(then)
            /\ spawned' = spawned \o then
            /\ last' = Op("answered", call.client_id, [fn |-> call.fn, ok |-> ok])
    /\ pc' = pc
    /\ ManagerUnchanged

\* A plausible slip of close_clients: the future is spawned, not blocked on.
ReturnsAtOnce ==
    /\ pc = "closing"
    /\ pc' = "closed"
    /\ last' = Op("close_clients", 0, "returned")
    /\ UNCHANGED <<spawned, blocked_on>>
    /\ ManagerUnchanged

\* RUNTIME.block_on returns once every future of join_all is complete, and
\* close_clients returns with it.
Returns ==
    /\ pc = "closing"
    /\ blocked_on = {}
    /\ pc' = "closed"
    /\ last' = Op("close_clients", 0, "returned")
    /\ UNCHANGED <<spawned, blocked_on>>
    /\ ManagerUnchanged

NextShutdown ==
    \/ Boot
    \/ HandleUpdate
    \/ GetMeAnswered
    \/ AddLoggedInSessionDone
    \/ BlockOn
    \/ Answered
    \/ Returns

\* TDLib answers every call it was sent, and block_on returns when it can.
ShutdownFairness == WF_vars(Answered) /\ WF_vars(Returns)

FairShutdown == ShutdownInit /\ [][NextShutdown]_vars /\ ShutdownFairness

\* ----------------------------------------------------- analyze_data_dir alone

\* Anything a data directory may hold: files, directories with and without
\* the binlog files, entries whose metadata cannot be read.
AnyEntries ==
    {Entry(meta, prod, test) : meta \in {"dir", "file", "error"},
                               prod \in BOOLEAN, test \in BOOLEAN}

AnyDisks == UNION {[names -> AnyEntries] : names \in SUBSET OldNames}

AnalyzeInit ==
    /\ pc = "analyze_data_dir"
    /\ test_dc = FALSE
    /\ data_dir \in {"missing", "uncreatable", "ok", "unreadable"}
    /\ disk \in AnyDisks
    /\ data_dir # "ok" => disk = <<>>
    /\ settings \in SeqsUpTo(OldNames \cup {StaleName}, MaxPersisted)
    /\ Constructed

\* analyze_data_dir runs on the runtime; last.arg is what it returns.
Analyze ==
    /\ pc = "analyze_data_dir"
    /\ \E order \in Orders(DOMAIN disk) :
         last' = Op("analyze_data_dir", 0, analyze_data_dir(data_dir, disk, order, settings))
    /\ pc' = "analyzed"
    /\ data_dir' = data_dir_after(data_dir)
    /\ UNCHANGED <<test_dc, last_client_id, disk, settings, recently_used_sessions,
                   initial_sessions_to_handle, clients, main_stack, pages,
                   visible_child, login, next_client_id, clock, tdlib, get_me, me,
                   removals, closed, delivered, forwarded, spawned, runtime, online,
                   blocked_on>>

SpecAnalyze == AnalyzeInit /\ [][Analyze]_vars

\* A plausible slip of do_async: the closure does not wait for the receiver and
\* runs with an empty data directory's result when nothing was sent yet.
ConstructAtOnce ==
    /\ pc \in {"analyze_data_dir", "analyzed"}
    /\ \E now \in Times :
         LET datadir_state == IF pc = "analyzed" THEN last.arg ELSE [tag |-> "Empty"]
         IN /\ now >= clock
            /\ Becomes(constructed([Now EXCEPT !.pc = "run"], datadir_state, test_dc, now),
                       Op("constructed", 0, datadir_state.tag))

\* The closure given to do_async in constructed() runs with what
\* analyze_data_dir returned.
Construct ==
    /\ pc = "analyzed"
    /\ \E now \in Times :
         /\ now >= clock
         /\ Becomes(constructed([Now EXCEPT !.pc = "run"], last.arg, test_dc, now),
                    Op("constructed", 0, last.arg.tag))

\* do_async in constructed(): pc = "analyze_data_dir" while the future spawned
\* on the runtime has not completed, pc = "analyzed" once it has sent its
\* result (last.arg) through the oneshot channel, and the task spawned on the
\* main context, which awaits the receiver, then calls the closure.  After
\* the start the updates arrive and add_logged_in_session calls do_async.
NextStartup ==
    \/ Analyze
    \/ Construct
    \/ HandleUpdate
    \/ GetMeAnswered
    \/ AddLoggedInSessionDone

\* The runtime runs the future it was given, and the main loop runs the task
\* whose receiver has a value.
FairStartup ==
    AnalyzeInit /\ [][NextStartup]_vars /\ WF_vars(Analyze) /\ WF_vars(Construct)

NextStart ==
    \/ Analyze
    \/ Construct

\* The start over anything the data directory may hold.
SpecStart == AnalyzeInit /\ [][NextStart]_vars

\* ---------------------------------------------------- session_index_for alone

\* session.me().phone_number() as the sessions may hold it: digits, with or
\* without spaces.
MePhones == {<<"1">>, <<"1", " ">>, <<" ", "2">>, <<"2">>}

PhoneDigits == {<<>>, <<"1">>, <<"2">>}

\* The sessions stacks of up to MaxClients logged in sessions.
AnyPages ==
    UNION {{[i \in 1..n |-> Session(i, DatabaseInfo(<<i, 0>>, flags[i]))] :
               flags \in [1..n -> BOOLEAN]} : n \in 0..MaxClients}

IndexInit ==
    /\ pc = "session_index_for"
    /\ test_dc = FALSE
    /\ data_dir = "ok"
    /\ disk = <<>>
    /\ settings = <<>>
    /\ recently_used_sessions = <<>>
    /\ initial_sessions_to_handle = 0
    /\ clients = <<>>
    /\ main_stack = "login"
    /\ pages \in AnyPages
    /\ visible_child = NoSession
    /\ login = NoLogin
    /\ next_client_id = 1
    /\ clock = StartTime
    /\ tdlib = <<>>
    /\ get_me = <<>>
    /\ me \in [1..Len(pages) -> MePhones]
    /\ removals = <<>>
    /\ closed = {}
    /\ last = Op("new", 0, "")
    /\ delivered = NoSession
    /\ forwarded = ""
    /\ spawned = <<>>
    /\ runtime = NotFollowed
    /\ online = <<>>
    /\ blocked_on = {}
    /\ last_client_id = MaxClients

\* session_index_for(on_test_dc, phone_number_digits) is called; last.client_id
\* is what it returns (0 for None, i + 1 for Some(i)), last.arg its arguments.
Index ==
    /\ pc = "session_index_for"
    /\ \E on_test_dc \in BOOLEAN, phone_number_digits \in PhoneDigits :
         last' = Op("session_index_for",
                    session_index_for(pages, me, on_test_dc, phone_number_digits),
                    [on_test_dc |-> on_test_dc,
                     phone_number_digits |-> phone_number_digits])
    /\ pc' = "indexed"
    /\ UNCHANGED <<test_dc, last_client_id, data_dir, disk, settings, recently_used_sessions,
                   initial_sessions_to_handle, clients, main_stack, pages,
                   visible_child, login, next_client_id, clock, tdlib, get_me, me,
                   removals, closed, delivered, forwarded, spawned, runtime, online,
                   blocked_on>>

SpecIndex == IndexInit /\ [][Index]_vars

\* --------------------------------------------------------------------- claims

Allocated == 1..(next_client_id - 1)

\* C1: every allocated client id has a record in the registry until its Closed
\* update has been processed, and has none in any state after that.
C1_RegistryUniqueness ==
    \A client_id \in Allocated :
        IF client_id \in closed
        THEN client_id \notin DOMAIN clients
        ELSE client_id \in DOMAIN clients

\* The callback that just ran was handle_update with this authorization state
\* for a client that had a record when it started.
Handled(client_id, states) ==
    /\ pc' = "run"
    /\ last' = Op("handle_update", client_id, last'.arg)
    /\ last'.arg \in states
    /\ client_id \in DOMAIN clients

\* C2: a directory is handed to remove_dir_all exactly by the callbacks that
\* process Closed for a client whose record is LoggingOut, and it is that
\* client's directory; no other callback schedules a deletion.
C2_DeletionOnlyOnClosedWhileLoggingOut ==
    [][pc' = "run" =>
         IF \E client_id \in ClientIds :
               Handled(client_id, {"Closed"}) /\ clients[client_id].state = LoggingOut
         THEN removals' = Append(removals, database_dir_base_name(clients[last'.client_id]))
         ELSE removals' = removals]_vars

C2_Witness ==
    /\ last.op = "handle_update"
    /\ last.arg = "Closed"
    /\ removals # <<>>
    /\ pc = "run"

Unexpected == {"WaitPhoneNumber", "WaitCode", "WaitOtherDeviceConfirmation"}

PageOf(state) ==
    CASE state = "WaitPhoneNumber" -> "phone-number-page"
      [] state = "WaitCode" -> "code-page"
      [] state = "WaitOtherDeviceConfirmation" -> "qr-code-page"

\* C3: with one session found at start whose use_test_dc is the configured one,
\* an unexpected authorization state for its record in Auth(true) makes the
\* record Auth(false), binds Login to the client and its session, shows the
\* state's page in Login, and requests no log-out.
C3_SoleSessionFallsBackToLogin ==
    [][\A client_id \in ClientIds :
          (/\ Handled(client_id, Unexpected)
           /\ clients[client_id].state = Auth(TRUE)
           /\ initial_sessions_to_handle = 1
           /\ clients[client_id].session.use_test_dc = test_dc)
          => /\ client_id \in DOMAIN clients'
             /\ clients'[client_id] = Client(clients[client_id].session, Auth(FALSE))
             /\ login'.client_id = client_id
             /\ login'.session = clients[client_id].session
             /\ login'.page = PageOf(last'.arg)
             /\ ~login'.frozen
             /\ ~tdlib'[client_id].logout]_vars

C3_Witness ==
    /\ pc = "run"
    /\ last.op = "handle_update"
    /\ last.arg \in Unexpected
    /\ last.client_id \in DOMAIN clients
    /\ clients[last.client_id].state = Auth(FALSE)
    /\ clients[last.client_id].session.directory_base_name \in OldNames
    /\ initial_sessions_to_handle = 1
    /\ login.client_id = last.client_id

\* The client was just logged out because its unexpected authorization state
\* could not be handed over to Login.
Abandoned(client_id) ==
    /\ pc = "run"
    /\ last = Op("handle_update", client_id, last.arg)
    /\ last.arg \in Unexpected
    /\ client_id \in DOMAIN clients
    /\ clients[client_id].state = Auth(TRUE)
    /\ tdlib[client_id].logout

\* C4: with two or more sessions found at start, or a use_test_dc other than
\* the configured one, an unexpected authorization state for a record in
\* Auth(true) requests a log-out for the client and leaves the registry and
\* Login as they are; and the client is then eventually removed from the
\* registry.
C4_OtherSessionsAreLoggedOut ==
    /\ [][\A client_id \in ClientIds :
            (/\ Handled(client_id, Unexpected)
             /\ clients[client_id].state = Auth(TRUE)
             /\ \/ initial_sessions_to_handle >= 2
                \/ clients[client_id].session.use_test_dc # test_dc)
            => /\ tdlib'[client_id].logout
               /\ clients' = clients
               /\ login' = login
               /\ main_stack' = main_stack]_vars
    /\ \A client_id \in ClientIds :
          Abandoned(client_id) ~> client_id \notin DOMAIN clients

C4_Witness ==
    /\ closed # {}
    /\ pc = "run"
    /\ last.op = "handle_update"
    /\ last.arg = "Closed"
    /\ initial_sessions_to_handle >= 2
    /\ tdlib[last.client_id].logout

\* A new session was started for the configured use_test_dc and Login shows it.
NewSessionStarted ==
    /\ next_client_id' = next_client_id + 1
    /\ next_client_id \in DOMAIN clients'
    /\ clients'[next_client_id].state = Auth(FALSE)
    /\ clients'[next_client_id].session.use_test_dc = test_dc
    /\ login'.client_id = next_client_id
    /\ main_stack' = "login"

\* C5: a LoggingOut update for a record in LoggedIn takes its session off the
\* sessions stack, takes its directory name out of the recently used sessions,
\* makes the record LoggingOut, and, when no session is left on the stack,
\* starts a new session with the configured use_test_dc.
C5_LoggingOutOfLoggedIn ==
    [][\A client_id \in ClientIds :
          (Handled(client_id, {"LoggingOut"}) /\ clients[client_id].state = LoggedIn)
          => /\ clients[client_id].session \notin Range(pages')
             /\ database_dir_base_name(clients[client_id])
                    \notin Range(recently_used_sessions')
             /\ client_id \in DOMAIN clients'
             /\ clients'[client_id] = Client(clients[client_id].session, LoggingOut)
             /\ pages' = <<>> => NewSessionStarted]_vars

NoDuplicates(vec) == \A i, j \in 1..Len(vec) : vec[i] = vec[j] => i = j

\* C7: the in-memory list of recently used sessions never holds a directory
\* name twice, whatever list was persisted.
C7_RecentlyUsedHasNoDuplicates == NoDuplicates(recently_used_sessions)

\* C6: when session A is the active visible session and session B then becomes
\* the active visible session, the recently used sessions end with A's name
\* followed by B's, and neither name is anywhere else in the list.
C6_PromotionOrder ==
    [][(/\ pc' = "run"
        /\ main_stack = "sessions" /\ main_stack' = "sessions"
        /\ visible_child # NoSession /\ visible_child' # NoSession
        /\ visible_child \in Range(pages')
        /\ visible_child'.directory_base_name # visible_child.directory_base_name)
       => LET recent == recently_used_sessions'
              n == Len(recent)
          IN /\ n >= 2
             /\ recent[n - 1] = visible_child.directory_base_name
             /\ recent[n] = visible_child'.directory_base_name
             /\ \A i \in 1..(n - 2) :
                   recent[i] \notin {recent[n - 1], recent[n]}]_vars

\* The names of the data directory's entries that are session directories.
Discovered ==
    {name \in DOMAIN disk :
        /\ disk[name].meta = "dir"
        /\ disk[name].td_binlog \/ disk[name].td_test_binlog}

IsDiscovered(name) == name \in Discovered

\* C8: the recently used sessions analyze_data_dir returns in HasSessions are
\* the persisted entries that name a discovered session directory, in their
\* persisted order; entries naming no such directory are left out.
C8_AnalyzerPrunesStaleNames ==
    (pc = "analyzed" /\ last.arg.tag = "HasSessions")
    => last.arg.recently_used_sessions = SelectSeq(settings, IsDiscovered)

C8_Witness ==
    /\ pc = "analyzed"
    /\ last.arg.tag = "HasSessions"
    /\ last.arg.recently_used_sessions # <<>>
    /\ StaleName \in Range(settings)
       \/ \E name \in Range(settings) : name \in DOMAIN disk /\ name \notin Discovered

\* C9: no two clients of the registry have sessions with the same directory
\* base name, however many add_new_session calls fall into one millisecond.
C9_GeneratedNamesDiffer ==
    \A a, b \in DOMAIN clients :
        database_dir_base_name(clients[a]) = database_dir_base_name(clients[b]) => a = b

\* Page i is a session on the asked data center whose own phone number has
\* the asked digits.
Matches(i) ==
    /\ pages[i].use_test_dc = last.arg.on_test_dc
    /\ digits_of(me[pages[i].client_id]) = last.arg.phone_number_digits

\* C10: session_index_for returns the lowest index of a page whose session is
\* on the asked data center and has the asked phone number, and None when the
\* stack holds no such session.
C10_SessionIndexFor ==
    pc = "indexed"
    => IF \E i \in 1..Len(pages) : Matches(i)
       THEN /\ last.client_id \in 1..Len(pages)
            /\ Matches(last.client_id)
            /\ \A j \in 1..(last.client_id - 1) : ~Matches(j)
       ELSE last.client_id = 0

C10_Witness ==
    /\ pc = "indexed"
    /\ last.client_id = 1
    /\ Len(pages) = 2
    /\ Matches(2)
    /\ me[1] # last.arg.phone_number_digits

\* The callback that just ran was the closure of add_logged_in_session for
\* this client, with the result of get_me.
FetchCompleted(client_id) ==
    /\ pc' = "run"
    /\ last' = Op("add_logged_in_session", client_id, "done")
    /\ client_id \in DOMAIN get_me

\* The closure made the session of this client the active one: the main stack
\* shows the sessions stack and the sessions stack shows the session.
MadeActive(client_id) ==
    /\ main_stack' = "sessions"
    /\ visible_child' = get_me[client_id].session
    /\ ~(main_stack = "sessions" /\ visible_child = get_me[client_id].session)

OtherIn(client_id, tag) ==
    \E id \in DOMAIN clients' \ {client_id} : clients'[id].state.tag = tag

\* C11 as stated: the closure of add_logged_in_session makes the session the
\* active one only if no other record is Auth, and then only if no other
\* record is LoggedIn or visible is true.
C11_MadeVisibleOnlyWithoutAuth ==
    [][\A client_id \in ClientIds :
          (FetchCompleted(client_id) /\ MadeActive(client_id))
          => /\ ~OtherIn(client_id, "Auth")
             /\ ~OtherIn(client_id, "LoggedIn") \/ get_me[client_id].visible]_vars

\* C11 as amended: the closure of add_logged_in_session makes the session the
\* active one only if visible is true, or the main stack does not show the
\* sessions stack and no other record is Auth.
C11_MadeVisibleWhenAskedOrIdle ==
    [][\A client_id \in ClientIds :
          (FetchCompleted(client_id) /\ MadeActive(client_id))
          => \/ get_me[client_id].visible
             \/ main_stack # "sessions" /\ ~OtherIn(client_id, "Auth")]_vars

C11_Witness ==
    /\ pc = "run"
    /\ last.op = "add_logged_in_session"
    /\ main_stack = "sessions"
    /\ visible_child.client_id = last.client_id
    /\ \E id \in DOMAIN clients \ {last.client_id} : clients[id].state.tag = "Auth"

\* The callback that just ran was handle_update for this client id, with an
\* update other than an authorization state.
Dispatched(client_id) == last' = Op("handle_update", client_id, OtherUpdate.tag)

\* The closure of add_logged_in_session has run for the client's session.
Promoted(client_id) == client_id \in DOMAIN me

\* C12 as stated: handle_update hands no authorization state to a session; it
\* hands any other update to the session of the record of the update's client
\* id, which the closure of add_logged_in_session has promoted before; and it
\* panics when the client id has no record.
C12_UpdatesReachPromotedSessions ==
    [][\A client_id \in ClientIds :
          /\ (pc = "run" /\ last' = Op("handle_update", client_id, last'.arg)
                 /\ last'.arg \in AuthorizationStates)
             => delivered' = NoSession
          /\ (pc = "run" /\ Dispatched(client_id))
             => IF client_id \in DOMAIN clients
                THEN /\ pc' = "run"
                     /\ delivered' = clients[client_id].session
                     /\ delivered'.client_id = client_id
                     /\ Promoted(client_id)
                ELSE pc' = "aborted"]_vars

\* C12 as amended: handle_update hands no authorization state to a session; it
\* hands any other update to the session of the record of the update's client
\* id, whatever the state of the record; and it panics when the client id has
\* no record.
C12_UpdatesReachTheRecordsSession ==
    [][\A client_id \in ClientIds :
          /\ (pc = "run" /\ last' = Op("handle_update", client_id, last'.arg)
                 /\ last'.arg \in AuthorizationStates)
             => delivered' = NoSession
          /\ (pc = "run" /\ Dispatched(client_id))
             => IF client_id \in DOMAIN clients
                THEN /\ pc' = "run"
                     /\ delivered' = clients[client_id].session
                     /\ delivered'.client_id = client_id
                ELSE pc' = "aborted"]_vars

C12_Witness ==
    /\ pc = "run"
    /\ last.op = "handle_update"
    /\ last.arg = OtherUpdate.tag
    /\ delivered = clients[last.client_id].session
    /\ clients[last.client_id].state.tag = "Auth"
    /\ visible_child # NoSession

\* C13 as stated: every authorization state handle_update gets for a record
\* in Auth(false) is given, as it is, to Login::set_authorization_state.
C13_EveryStateIsForwarded ==
    [][\A client_id \in ClientIds :
          (Handled(client_id, AuthorizationStates) /\ clients[client_id].state = Auth(FALSE))
          => forwarded' = last'.arg]_vars

\* The authorization states the session manager handles itself.
HandledByManager == {"LoggingOut", "Closed"}

\* C13 as amended: every authorization state other than LoggingOut and Closed
\* that handle_update gets for a record in Auth(false) is given, as it is, to
\* Login::set_authorization_state.
C13_LoginStatesAreForwarded ==
    [][\A client_id \in ClientIds :
          (/\ Handled(client_id, AuthorizationStates \ HandledByManager)
           /\ clients[client_id].state = Auth(FALSE))
          => forwarded' = last'.arg]_vars

C13_Witness ==
    /\ pc = "run"
    /\ last.op = "handle_update"
    /\ last.arg = "WaitCode"
    /\ forwarded = "WaitCode"
    /\ last.client_id \in DOMAIN clients
    /\ clients[last.client_id].state = Auth(FALSE)

Resumed == {"WaitTdlibParameters", "WaitEncryptionKey", "Ready"}

\* C14: for a record in Auth(true), WaitTdlibParameters sends the parameters
\* of the record's own DatabaseInfo for the client, WaitEncryptionKey sends an
\* empty encryption key for the client, Ready calls add_logged_in_session with
\* the record's session; none of the three is given to Login and none changes
\* the record.
C14_SilentResume ==
    [][\A client_id \in ClientIds :
          (Handled(client_id, Resumed) /\ clients[client_id].state = Auth(TRUE))
          => LET session == clients[client_id].session
             IN /\ forwarded' = ""
                /\ login' = login
                /\ client_id \in DOMAIN clients'
                /\ clients'[client_id] = clients[client_id]
                /\ last'.arg = "WaitTdlibParameters"
                      => tdlib'[client_id].request =
                            Req("parameters", FALSE,
                                DatabaseInfo(session.directory_base_name,
                                             session.use_test_dc))
                /\ last'.arg = "WaitEncryptionKey"
                      => tdlib'[client_id].request = Req("key", FALSE, <<>>)
                /\ last'.arg = "Ready"
                      => /\ client_id \in DOMAIN get_me'
                         /\ get_me'[client_id].status = "sent"
                         /\ get_me'[client_id].session = session
                /\ last'.arg # "Ready" => get_me' = get_me]_vars

C14_Witness ==
    /\ pc = "run"
    /\ last.op = "handle_update"
    /\ last.arg = "Ready"
    /\ last.client_id \in DOMAIN clients
    /\ clients[last.client_id].state = Auth(TRUE)
    /\ clients[last.client_id].session.use_test_dc # test_dc
    /\ last.client_id \in DOMAIN get_me

\* The recently used sessions without the directory name of the client.
Pruned(client_id) ==
    remove_from_vec(recently_used_sessions, database_dir_base_name(clients[client_id]))

\* The last of the recently used sessions, the client's taken out, names a
\* session that stays on the stack.
FallbackKnown(client_id) ==
    /\ Pruned(client_id) # <<>>
    /\ \E i \in 1..Len(pages') :
          pages'[i].directory_base_name = Pruned(client_id)[Len(Pruned(client_id))]

C16_LogOutDestroysTheSession ==
    [][\A client_id \in ClientIds :
          /\ Handled(client_id, {"LoggingOut"})
             => /\ client_id \in DOMAIN clients'
                /\ clients'[client_id] = Client(clients[client_id].session, LoggingOut)
          /\ (pc = "run" /\ last' = Op("handle_update", client_id, "Closed"))
             => /\ pc' = "run"
                /\ client_id \in DOMAIN clients
                /\ client_id \notin DOMAIN clients'
                /\ removals' = Append(removals, database_dir_base_name(clients[client_id]))]_vars

\* C17 as stated: after every callback, the start included, the persisted
\* recently used sessions are the recently used sessions in memory.
C17_PersistedIsInMemory == pc = "run" => settings = recently_used_sessions

\* C17 as amended: every callback after the start that changes the recently
\* used sessions in memory, or the persisted ones, leaves the two equal; the
\* start itself persists nothing.
C17_ChangesAreWrittenBack ==
    [][/\ (pc = "run" /\ pc' = "run"
            /\ \/ recently_used_sessions' # recently_used_sessions
               \/ settings' # settings)
          => settings' = recently_used_sessions'
       /\ pc = "boot" => settings' = settings]_vars

C17_Witness ==
    /\ pc = "run"
    /\ last.op = "handle_update"
    /\ last.arg = "LoggingOut"
    /\ settings = recently_used_sessions
    /\ settings # <<>>
    /\ \E client_id \in DOMAIN clients :
          /\ clients[client_id].state = LoggingOut
          /\ client_id \in DOMAIN me
          /\ database_dir_base_name(clients[client_id]) \notin Range(settings)

\* The active logged-in client, as active_logged_in_client_id finds it.
ActiveLoggedIn(client_id) ==
    /\ main_stack = "sessions"
    /\ visible_child # NoSession
    /\ visible_child.client_id = client_id
    /\ client_id \in DOMAIN clients
    /\ clients[client_id].state = LoggedIn

\* C18: once every spawned set_online call has completed, of the clients whose
\* record is LoggedIn exactly the active one is online, whatever the order in
\* which the runtime ran the calls.
C18_OnlineIsTheActiveClient ==
    runtime.tasks = <<>> =>
        \A client_id \in DOMAIN clients :
            clients[client_id].state = LoggedIn =>
                (online[client_id] <=> ActiveLoggedIn(client_id))

\* close_clients has just run.
Closing == pc = "closed" /\ last.op = "close_clients"

\* The positions in the calls of the last callback of fn for client_id.
CallsOf(client_id, fn) ==
    {i \in 1..Len(spawned) : spawned[i].client_id = client_id /\ spawned[i].fn = fn}

\* C19: close_clients sets every client whose record is Auth or LoggedIn
\* offline and then closes it, the close issued after the set_online call, and
\* makes neither call for a client whose record is LoggingOut.
C19_OfflineThenClose ==
    Closing =>
        \A client_id \in DOMAIN clients :
            /\ clients[client_id].state.tag \in {"Auth", "LoggedIn"} =>
                  /\ \E i \in CallsOf(client_id, "set_online") : ~spawned[i].value
                  /\ CallsOf(client_id, "close") # {}
                  /\ \A j \in CallsOf(client_id, "close") :
                        \E i \in CallsOf(client_id, "set_online") : i < j
            /\ clients[client_id].state = LoggingOut =>
                  /\ CallsOf(client_id, "set_online") = {}
                  /\ CallsOf(client_id, "close") = {}

\* The start has just found the data directory empty.
StartedEmpty == last = Op("constructed", 0, "Empty")

\* C20: when analyze_data_dir reports Empty at the start, add_new_session is
\* called once, with the configured test_dc, and add_existing_session is not
\* called: one client is created, its record is Auth with maybe_authorized
\* false, its session is for the configured data center, and Login is bound
\* to it.
C20_EmptyStartAddsOneNewSession ==
    [][(pc = "boot" /\ last' = Op("constructed", 0, "Empty")) =>
          /\ next_client_id' = next_client_id + 1
          /\ DOMAIN clients' = {next_client_id}
          /\ clients'[next_client_id].state = Auth(FALSE)
          /\ clients'[next_client_id].session.client_id = next_client_id
          /\ clients'[next_client_id].session.use_test_dc = test_dc
          /\ login'.client_id = next_client_id
          /\ login'.session = clients'[next_client_id].session
          /\ main_stack' = "login"
          /\ pages' = <<>>
          /\ initial_sessions_to_handle' = 0]_vars

C20_Witness ==
    /\ StartedEmpty
    /\ test_dc
    /\ DOMAIN clients = {1}
    /\ clients[1].session.use_test_dc


\* The start has just found session directories in the data directory.
StartedWithSessions == last = Op("constructed", 0, "HasSessions")

\* The ids of the clients whose record owns the identity named name.
OwnersOf(registry, name) ==
    {id \in DOMAIN registry : registry[id].session.directory_base_name = name}

\* C21: when analyze_data_dir reports HasSessions at the start,
\* add_existing_session is called once for every session directory found: each
\* call creates a new client and registers it as Auth with maybe_authorized
\* true and a session of that directory's identity; Login is not bound, the
\* stacks show what they showed, and the recently used sessions are the ones
\* constructed took from the analyzer.
C21_ExistingSessionsAreRegistered ==
    [][(pc = "boot" /\ last' = Op("constructed", 0, "HasSessions")) =>
          /\ next_client_id' = next_client_id + Cardinality(Discovered)
          /\ DOMAIN clients' = next_client_id..(next_client_id' - 1)
          /\ DOMAIN tdlib' = DOMAIN clients'
          /\ \A id \in DOMAIN clients' :
                /\ clients'[id].state = Auth(TRUE)
                /\ clients'[id].session.client_id = id
                /\ tdlib'[id].state = "Created"
                /\ clients'[id].session.directory_base_name \in Discovered
                /\ clients'[id].session.use_test_dc
                      = ~disk[clients'[id].session.directory_base_name].td_binlog
          /\ \A name \in Discovered : Cardinality(OwnersOf(clients', name)) = 1
          /\ login' = login
          /\ main_stack' = main_stack
          /\ pages' = pages
          /\ visible_child' = visible_child
          /\ recently_used_sessions' = SelectSeq(settings, IsDiscovered)
          /\ initial_sessions_to_handle' = Cardinality(Discovered)]_vars

C21_Witness ==
    /\ StartedWithSessions
    /\ Cardinality(DOMAIN clients) = 2
    /\ \E id \in DOMAIN clients : clients[id].session.use_test_dc
    /\ login = NoLogin


\* C22: add_new_session(use_test_dc) creates a new client, registers it as Auth
\* with maybe_authorized false and a session whose identity is new (it names no
\* directory of the data directory and carries the time of the call) and has
\* that use_test_dc, binds Login to that client and session, and makes Login
\* the visible child of the main stack; the other records stay as they are.
C22_NewSessionIsRegisteredAndShown ==
    [][(pc = "run" /\ last'.op = "add_new_session") =>
          /\ last'.client_id = next_client_id
          /\ next_client_id' = next_client_id + 1
          /\ next_client_id \notin DOMAIN clients
          /\ next_client_id \in DOMAIN tdlib'
          /\ DOMAIN clients' = DOMAIN clients \cup {next_client_id}
          /\ \A other \in DOMAIN clients : clients'[other] = clients[other]
          /\ clients'[next_client_id].state = Auth(FALSE)
          /\ clients'[next_client_id].session.client_id = next_client_id
          /\ clients'[next_client_id].session.use_test_dc = last'.arg
          /\ clients'[next_client_id].session.directory_base_name \notin DOMAIN disk
          /\ clients'[next_client_id].session.directory_base_name[1] = clock'
          /\ login'.client_id = next_client_id
          /\ login'.session = clients'[next_client_id].session
          /\ main_stack' = "login"]_vars

C22_Witness ==
    /\ last.op = "add_new_session"
    /\ last.arg
    /\ main_stack = "login"
    /\ pages # <<>>
    /\ login.client_id = last.client_id
    /\ last.client_id \in DOMAIN clients


\* The database infos analyze_data_dir returned.
Returned ==
    IF last.arg.tag = "HasSessions" THEN Range(last.arg.database_infos) ELSE {}

\* The subdirectories of the data directory.
Subdirectories == {name \in DOMAIN disk : disk[name].meta = "dir"}

\* C23 as claimed: a subdirectory is a session directory exactly if it holds
\* td.binlog or td_test.binlog, and its identity has use_test_dc set whenever
\* it holds td_test.binlog, whatever else it holds.
C23_TestMarkerMeansTestDc ==
    (pc = "analyzed" /\ last.arg.tag # "Err") =>
        \A name \in Subdirectories :
            /\ (\E info \in Returned : info.directory_base_name = name)
                  <=> (disk[name].td_binlog \/ disk[name].td_test_binlog)
            /\ \A info \in Returned :
                  (info.directory_base_name = name /\ disk[name].td_test_binlog)
                      => info.use_test_dc

\* C23: a subdirectory is a session directory exactly if it holds td.binlog or
\* td_test.binlog, no other entry is one, and its identity has use_test_dc set
\* exactly if it holds td_test.binlog and no td.binlog.
C23_ProductionMarkerWins ==
    (pc = "analyzed" /\ last.arg.tag # "Err") =>
        /\ \A info \in Returned : info.directory_base_name \in Subdirectories
        /\ \A name \in Subdirectories :
              /\ (\E info \in Returned : info.directory_base_name = name)
                    <=> (disk[name].td_binlog \/ disk[name].td_test_binlog)
              /\ \A info \in Returned :
                    info.directory_base_name = name
                        => (info.use_test_dc
                               <=> (disk[name].td_test_binlog /\ ~disk[name].td_binlog))

C23_Witness ==
    /\ pc = "analyzed"
    /\ \E name \in Subdirectories :
          /\ disk[name].td_binlog
          /\ disk[name].td_test_binlog
          /\ DatabaseInfo(name, FALSE) \in Returned
    /\ \E name \in Subdirectories : DatabaseInfo(name, TRUE) \in Returned


\* The names in the database infos that analyze_data_dir is returning.
NamesReturned(datadir_state) ==
    IF datadir_state.tag = "HasSessions"
    THEN {datadir_state.database_infos[i].directory_base_name :
             i \in DOMAIN datadir_state.database_infos}
    ELSE {}

\* C24: analyze_data_dir returns Empty for a missing data directory, which it
\* has created, and for one that holds no session directory; files,
\* directories without a binlog file and entries whose metadata cannot be
\* read are left out and are no error; when the data directory can be neither
\* created nor read it returns an error, and then, and only then, the closure
\* in constructed panics.
C24_EmptyOrFatal ==
    [][/\ (pc = "analyze_data_dir" /\ pc' = "analyzed") =>
             /\ data_dir = "missing" =>
                   (last'.arg.tag = "Empty" /\ data_dir' = "ok")
             /\ data_dir = "ok" =>
                   /\ last'.arg.tag # "Err"
                   /\ last'.arg.tag = "Empty" <=> Discovered = {}
                   /\ NamesReturned(last'.arg) = Discovered
             /\ data_dir \in {"uncreatable", "unreadable"} =>
                   (last'.arg.tag = "Err" /\ data_dir' = data_dir)
       /\ (pc = "analyzed" /\ last'.op = "constructed") =>
             /\ pc' = "aborted" <=> last.arg.tag = "Err"
             /\ pc' # "aborted" => pc' = "run"]_vars

C24_Witness ==
    /\ pc = "run"
    /\ StartedEmpty
    /\ data_dir = "ok"
    /\ \E name \in DOMAIN disk : disk[name].meta = "error"
    /\ \E name \in DOMAIN disk :
          disk[name].meta = "dir" /\ ~disk[name].td_binlog /\ ~disk[name].td_test_binlog


\* The callback running is the completion of get_me for client_id: TDLib's
\* answer, or the closure of add_logged_in_session with the answer.
Completes(client_id) ==
    /\ pc = "run"
    /\ last'.op \in {"get_me", "add_logged_in_session"}
    /\ last'.client_id = client_id

\* The client is closed at TDLib, or its record was removed by Closed.
Gone(client_id) ==
    \/ client_id \in closed
    \/ client_id \in DOMAIN tdlib /\ tdlib[client_id].state = "Closed"

\* C25: the completion of the profile fetch of add_logged_in_session for a
\* client that is closed, whether the fetch failed for it or its record was
\* removed by Closed in the meantime, does not end the process.
C25_LateCompletionIsNotFatal ==
    [][\A client_id \in ClientIds :
          (Completes(client_id) /\ Gone(client_id)) => pc' = "run"]_vars


\* TDLib has answered a request of client_id with an error and the closure
\* given to do_async is running.
Failing(client_id) ==
    /\ pc = "run"
    /\ last' = Op("request_fails", client_id, last'.arg)
    /\ client_id \in DOMAIN clients

\* C26: while a client is resumed silently (its record is Auth with
\* maybe_authorized true) the failure of its set_tdlib_parameters or
\* check_database_encryption_key call ends the process; Login is not given
\* anything.
C26_SilentResumeFailureIsFatal ==
    [][\A client_id \in ClientIds :
          (Failing(client_id) /\ clients[client_id].state = Auth(TRUE)) =>
              /\ last'.arg \in {"parameters", "key"}
              /\ pc' = "aborted"
              /\ forwarded' = ""]_vars

C26_Witness ==
    /\ pc = "aborted"
    /\ last.op = "request_fails"
    /\ last.arg = "key"
    /\ disk # <<>>


\* C27: when a call made by Login for the client it is logging in fails
\* (parameters, encryption key, phone number, code, QR code request), the
\* process goes on and the session manager is as before: the registry, the
\* recently used sessions, in memory and saved, the sessions of the stack and
\* what the stacks show.  Login at most becomes usable again.
C27_LoginFailureLeavesManagerAlone ==
    [][\A client_id \in ClientIds :
          (Failing(client_id) /\ tdlib[client_id].request.by_login) =>
              /\ pc' = "run"
              /\ clients' = clients
              /\ recently_used_sessions' = recently_used_sessions
              /\ settings' = settings
              /\ pages' = pages
              /\ visible_child' = visible_child
              /\ main_stack' = main_stack
              /\ initial_sessions_to_handle' = initial_sessions_to_handle
              /\ removals' = removals
              /\ forwarded' = ""
              /\ login' \in {login, [login EXCEPT !.frozen = FALSE]}]_vars

C27_Witness ==
    /\ pc = "run"
    /\ last.op = "request_fails"
    /\ last.arg = "phone"
    /\ last.client_id = login.client_id
    /\ ~login.frozen
    /\ clients[last.client_id].state = Auth(FALSE)


\* C28: the session of a client's record, and with it the identity
\* (directory_base_name and use_test_dc), is the same for as long as the client
\* has a record, whatever becomes of the record's state; and it is the session
\* of that client.
C28_IdentityIsKept ==
    [][pc' = "run" =>
          \A client_id \in DOMAIN clients' :
              /\ clients'[client_id].session.client_id = client_id
              /\ client_id \in DOMAIN clients =>
                    clients'[client_id].session = clients[client_id].session]_vars

C28_Witness ==
    /\ pc = "run"
    /\ last.op = "handle_update"
    /\ last.arg = "LoggingOut"
    /\ last.client_id \in DOMAIN clients
    /\ last.client_id \in DOMAIN me
    /\ clients[last.client_id].state = LoggingOut
    /\ visible_child # NoSession
    /\ visible_child.client_id # last.client_id


\* The calls close_clients has made.
Issued == Range(spawned)

\* C29: close_clients returns only when none of the set_online and close calls
\* it made is still unanswered, and it does return when TDLib answers every
\* call it is sent.
C29_ReturnsWhenAllCallsCompleted ==
    /\ [](pc = "closed" => blocked_on = {})
    /\ [][(pc = "closing" /\ pc' = "closed") => blocked_on = {}]_vars
    /\ (pc = "closing") ~> (pc = "closed")

C29_Witness ==
    /\ pc = "closed"
    /\ last = Op("close_clients", 0, "returned")
    /\ \E client_id \in DOMAIN clients :
          /\ clients[client_id].state = LoggedIn
          /\ Call(client_id, "set_online", FALSE) \in Issued
          /\ Call(client_id, "close", FALSE) \in Issued
    /\ \E client_id \in DOMAIN clients :
          /\ clients[client_id].state.tag = "Auth"
          /\ Call(client_id, "set_online", FALSE) \in Issued
          /\ Call(client_id, "close", FALSE) \notin Issued


\* C30: a record that is LoggingOut stays LoggingOut for as long as it is in
\* the registry, whichever of the updates and of the profile-fetch
\* completions runs next: it never becomes Authorizing or LoggedIn again.
C30_LoggingOutIsFinal ==
    [][pc' = "run"
         => \A client_id \in DOMAIN clients :
                (clients[client_id].state = LoggingOut /\ client_id \in DOMAIN clients')
                    => clients'[client_id].state = LoggingOut]_vars


\* C31: while the session manager runs, a session is a child of the sessions
\* stack if and only if the registry holds a LoggedIn record for its client.
C31_ShownIffLoggedIn ==
    pc = "run" =>
        /\ \A i \in 1..Len(pages) :
               /\ pages[i].client_id \in DOMAIN clients
               /\ clients[pages[i].client_id] = Client(pages[i], LoggedIn)
        /\ \A client_id \in DOMAIN clients :
               clients[client_id].state = LoggedIn
                   => \E i \in 1..Len(pages) : pages[i] = clients[client_id].session


\* C32: whenever an update's authorization state is given to Login, the update
\* is one of the client Login is bound to.
C32_ForwardedStatesAreOfTheLoginClient ==
    [][(pc' = "run" /\ last'.op = "handle_update" /\ forwarded' # "")
          => last'.client_id = login'.client_id]_vars


\* C33: every client whose record is Auth{maybe_authorized: false} is the
\* client Login is bound to, or a log-out was requested for it.
C33_InteractiveClientsAreBoundOrLoggedOut ==
    pc = "run" =>
        \A client_id \in DOMAIN clients :
            clients[client_id].state = Auth(FALSE)
                => \/ client_id = login.client_id
                   \/ client_id \in DOMAIN tdlib /\ tdlib[client_id].logout


\* Login is shown and is logging in a client registered as Auth(false).
LoginInProgress ==
    /\ main_stack = "login"
    /\ login.client_id \in DOMAIN clients
    /\ clients[login.client_id].state = Auth(FALSE)

\* The sessions stack is shown and its visible child is a logged-in session.
SessionShown ==
    /\ main_stack = "sessions"
    /\ visible_child # NoSession
    /\ visible_child.client_id \in DOMAIN clients
    /\ clients[visible_child.client_id] = Client(visible_child, LoggedIn)

\* C34: while the session manager runs, it always comes again to a state in
\* which Login is logging in a registered client or a logged-in session is
\* shown, provided the main loop and TDLib do their part.
C34_LoginOrSessionIsShownAgain ==
    (pc = "run") ~> (LoginInProgress \/ SessionShown \/ pc = "aborted")


C36_RecentlyUsedNamesNoLoggedOutSession ==
    pc = "run" =>
        \A i \in 1..Len(recently_used_sessions) :
            /\ \A client_id \in DOMAIN clients :
                   clients[client_id].state = LoggingOut
                       => database_dir_base_name(clients[client_id])
                              # recently_used_sessions[i]
            /\ recently_used_sessions[i] \notin Range(removals)


ConstructedWith(datadir_state) ==
    /\ last' = Op("constructed", 0, datadir_state.tag)
    /\ datadir_state.tag = "Err" => pc' = "aborted"
    /\ datadir_state.tag = "Empty"
          => /\ pc' = "run"
             /\ DOMAIN clients' = {1}
             /\ clients'[1].state = Auth(FALSE)
    /\ datadir_state.tag = "HasSessions"
          => /\ pc' = "run"
             /\ recently_used_sessions' = datadir_state.recently_used_sessions
             /\ initial_sessions_to_handle' = Len(datadir_state.database_infos)
             /\ clients' = [i \in 1..Len(datadir_state.database_infos) |->
                               Client(Session(i, datadir_state.database_infos[i]),
                                      Auth(TRUE))]

\* C38: the closure given to do_async runs only after the future has completed,
\* with the future's result, and once: the closure of constructed() runs from
\* the state in which analyze_data_dir has returned, which is entered once,
\* and it does run; the closure of add_logged_in_session runs for a get_me
\* call that was answered, with the answer, and the call is pending no longer.
C38_ClosureRunsOnceWithTheResult ==
    /\ [][last'.op = "constructed"
            => /\ pc = "analyzed"
               /\ last.op = "analyze_data_dir"
               /\ ConstructedWith(last.arg)]_vars
    /\ [][/\ pc' = "analyze_data_dir" => pc = "analyze_data_dir"
          /\ pc' = "analyzed" => pc = "analyze_data_dir"]_vars
    /\ [][(pc' = "run" /\ last'.op = "add_logged_in_session")
            => /\ last'.client_id \in DOMAIN get_me
               /\ get_me[last'.client_id].status = "ok"
               /\ last'.client_id \notin DOMAIN get_me'
               /\ me'[get_me[last'.client_id].session.client_id]
                      = get_me[last'.client_id].phone_number]_vars
    /\ (pc = "analyze_data_dir") ~> (last.op = "constructed")

C38_Witness ==
    /\ pc = "run"
    /\ last = Op("constructed", 0, "HasSessions")
    /\ Len(clients) = 2
    /\ recently_used_sessions # <<>>

====
